---------------------------- MODULE Spec2Model ----------------------------
(***************************************************************************)
(* Model of the EDR endpoint agent (src/edr-agent): the response-action    *)
(* executor and command dispatcher (CommandProcessor.cpp), the polling     *)
(* loop (CommandProcessor.cpp) and the push channel (WebSocketClient.cpp). *)
(*                                                                         *)
(* Each subsystem has its own specification over the shared variables:     *)
(*   SpecFw    isolateHost / deisolateHost against the firewall store      *)
(*   SpecKill  killProcessTree against a process-table snapshot            *)
(*   SpecCmd   executeCommand applied to one command string                *)
(*   SpecPoll  pollCommandsLoop with start/stopCommandPolling              *)
(*   SpecPollOne one polling thread, scheduled fairly                      *)
(*   SpecWs    the WebSocketClient caller thread and its I/O thread        *)
(*   SpecStop  either command channel with its shutdown call               *)
(*   SpecWsOne the push channel after one connect() and without close()    *)
(*   SpecHttp  the request functions of one HttpClient (HttpClient.cpp)    *)
(*   SpecTel   ProcessEvent buffering and flushing events (EdrAgent.cpp)   *)
(*   SpecIso   isolate_host under each configuration of the server         *)
(* The variables of the other subsystems keep their initial value.         *)
(***************************************************************************)
EXTENDS Integers, Sequences, FiniteSets, TLC

VARIABLES
    rules,      \* firewall store: number of rules installed under each agent rule name
    fwLast,     \* record of the last isolateHost / deisolateHost call
    procs,      \* process table: live pid -> parent pid (th32ParentProcessID)
    killLast,   \* record of the last killProcessTree call
    shells,     \* number of revshell.exe processes startReverseShell has launched
    cmd,        \* the command string handed to executeCommand
    cmdPc,      \* "pending" before executeCommand runs on cmd, "done" after
    cmdOutcome, \* how the call ended: "returned", "exception", "stack_overflow"
    cmdResp,    \* the string executeCommand returned
    pollingActive, \* the atomic flag of the polling thread state
    pollMutex,  \* holder of pollMutex: a polling thread, or 0 when free
    pollPc,     \* position of each polling thread in pollCommandsLoop
    pollCmd,    \* the command envelope each polling thread has fetched
    pollWake,   \* what ended the last condition-variable wait of each polling thread
    pollCycle,  \* what each polling thread has fetched, executed and posted in its cycle
    ctlPc,      \* position of the controlling thread in start/stopCommandPolling
    m_open,             \* WebSocketClient::m_open
    m_should_reconnect, \* WebSocketClient::m_should_reconnect
    m_retry_count,      \* WebSocketClient::m_retry_count
    m_retry_delay_ms,   \* WebSocketClient::m_retry_delay_ms
    m_mutex,    \* holder of m_mutex: "free", "api" (a caller of the client) or "io"
    apiPc,      \* position of the calling thread inside connect / send / close
    ioPc,       \* position of m_io_thread: "none" while no joinable thread exists
    iocStopped, \* m_ioc.stop() has been called
    chains,     \* pending asynchronous operations of the resolve-connect-handshake-read chain
    timer,      \* m_reconnect_timer: "none", "idle", "armed", "fired" or "aborted"
    timerDelay, \* the delay last given to m_reconnect_timer->expires_after, in ms
    posts,      \* lambdas posted to the executor and not yet run: "write", "close"
    wsDispatch, \* the last message on_read handled and the response it produced
    hSession,   \* HttpClient::hSession is not NULL
    hConnect,   \* HttpClient::hConnect is not NULL
    path,       \* HttpClient::path, the apiPath the client was constructed with
    customHeaders, \* HttpClient::customHeaders, in the order of the addHeader calls
    httpLast,   \* record of the last request function called on the client
    eventBuffer, \* the static eventBuffer of ProcessEvent
    telPushed,  \* number of events pushed so far
    telLast,    \* record of the last push
    telBatches, \* the batches handed to sendTelemetryBatch so far, in order
    telDropped, \* number of delivered events that were not converted
    configFile, \* config.json as isolate_host and the polling loop read it
    allowScope, \* remoteip and remoteport of the installed EDR_ALLOW_SERVER rule
    serverUrl   \* server and port of the serverUrl of pollCommandsLoop

hostVars == <<rules, fwLast, procs, killLast, shells>>

cmdVars == <<cmd, cmdPc, cmdOutcome, cmdResp>>

pollVars == <<pollingActive, pollMutex, pollPc, pollCmd, pollWake, pollCycle, ctlPc>>

wsVars == <<m_open, m_should_reconnect, m_retry_count, m_retry_delay_ms, m_mutex,
            apiPc, ioPc, iocStopped, chains, timer, timerDelay, posts, wsDispatch>>

httpVars == <<hSession, hConnect, path, customHeaders, httpLast>>

telVars == <<eventBuffer, telPushed, telLast, telBatches, telDropped>>

isoVars == <<configFile, allowScope, serverUrl>>

extVars == <<httpVars, telVars, isoVars>>

vars == <<rules, fwLast, procs, killLast, shells, cmd, cmdPc, cmdOutcome, cmdResp,
          pollingActive, pollMutex, pollPc, pollCmd, pollWake, pollCycle, ctlPc,
          m_open, m_should_reconnect, m_retry_count, m_retry_delay_ms, m_mutex,
          apiPc, ioPc, iocStopped, chains, timer, timerDelay, posts, wsDispatch,
          hSession, hConnect, path, customHeaders, httpLast,
          eventBuffer, telPushed, telLast, telBatches, telDropped, configFile,
          allowScope, serverUrl>>

----------------------------------------------------------------------------
(* Bounds *)

\* most rules the model lets accumulate under one name (netsh add rule can repeat a name)
MaxRules == 2

\* process ids are 0..MaxPid; pid 0 is the System Idle Process, its own parent
MaxPid == 3

\* most polling threads the model lets startCommandPolling create
MaxPollThreads == 2

\* most asynchronous chain operations the model lets be pending at once
MaxChains == 2

\* most posted lambdas of one kind the model lets be queued at once
MaxPosts == 2

\* most consecutive failed attempts the model lets the push channel count
MaxRetryCount == 5

\* addHeader calls on one client
MaxHeaders == 2

\* events delivered to ProcessEvent: enough for two batches and one event more
MaxEvents == 201
MaxDropped == 2

----------------------------------------------------------------------------
(* Firewall: runNetshCommand, isolateHost, deisolateHost *)

BLOCK_ALL == "EDR_BLOCK_ALL"
ALLOW_ANTIGRAVITY == "EDR_ALLOW_ANTIGRAVITY"
ALLOW_SERVER == "EDR_ALLOW_SERVER"
ALLOW_DNS == "EDR_ALLOW_DNS"

RuleNames == {BLOCK_ALL, ALLOW_ANTIGRAVITY, ALLOW_SERVER, ALLOW_DNS}

\* the netsh "add rule" commands in the order isolateHost issues them
IsolateOrder == <<BLOCK_ALL, ALLOW_ANTIGRAVITY, ALLOW_SERVER, ALLOW_DNS>>

\* the netsh "delete rule" commands in the order deisolateHost issues them
DeisolateOrder == <<BLOCK_ALL, ALLOW_ANTIGRAVITY, ALLOW_SERVER, ALLOW_DNS>>

\* the outcomes the four netsh child processes of one call would have if run
NetshOutcomes == [1..4 -> BOOLEAN]

\* runNetshCommand("... add rule name=r ..."): exit code 0 adds one rule named r
runNetshAdd(store, r, ok) ==
    IF ok THEN [store EXCEPT ![r] = @ + 1] ELSE store

\* a delete that would remove only one of the rules carrying the name
runNetshDeleteOne(store, r, ok) ==
    IF ok /\ store[r] > 0 THEN [store EXCEPT ![r] = @ - 1] ELSE store

\* runNetshCommand("... delete rule name=r"): exit code 0 removes every rule named r
runNetshDelete(store, r, ok) ==
    IF ok THEN [store EXCEPT ![r] = 0] ELSE store

\* isolateHost as it would be with every step run whatever the earlier ones returned
RECURSIVE isolateFromNoFailFast(_, _, _)
isolateFromNoFailFast(i, oks, acc) ==
    IF i > Len(IsolateOrder)
    THEN acc
    ELSE LET r == IsolateOrder[i]
         IN  isolateFromNoFailFast(i + 1, oks,
                 [store    |-> runNetshAdd(acc.store, r, oks[i]),
                  attempts |-> Append(acc.attempts, [rule |-> r, ok |-> oks[i]]),
                  result   |-> acc.result /\ oks[i]])

isolateHostNoFailFast(store, oks) ==
    isolateFromNoFailFast(1, oks, [store |-> store, attempts |-> <<>>, result |-> TRUE])

\* isolateHost: the run of "if (!runNetshCommand(...)) return false;" lines from
\* step i on; acc carries the store and the attempts made so far
RECURSIVE isolateFrom(_, _, _)
isolateFrom(i, oks, acc) ==
    IF i > Len(IsolateOrder)
    THEN [acc EXCEPT !.result = TRUE]
    ELSE LET r    == IsolateOrder[i]
             next == [store    |-> runNetshAdd(acc.store, r, oks[i]),
                      attempts |-> Append(acc.attempts, [rule |-> r, ok |-> oks[i]]),
                      result   |-> FALSE]
         IN  IF ~oks[i] THEN next ELSE isolateFrom(i + 1, oks, next)

isolateHost(store, oks) ==
    isolateFrom(1, oks, [store |-> store, attempts |-> <<>>, result |-> FALSE])

\* deisolateHost as it would be if it returned at the first failing delete
RECURSIVE deisolateFromFailFast(_, _, _)
deisolateFromFailFast(i, oks, acc) ==
    IF i > Len(DeisolateOrder)
    THEN acc
    ELSE LET r    == DeisolateOrder[i]
             next == [store    |-> runNetshDelete(acc.store, r, oks[i]),
                      attempts |-> Append(acc.attempts, [rule |-> r, ok |-> oks[i]]),
                      result   |-> oks[i]]
         IN  IF ~oks[i] THEN next ELSE deisolateFromFailFast(i + 1, oks, next)

deisolateHostFailFast(store, oks) ==
    deisolateFromFailFast(1, oks, [store |-> store, attempts |-> <<>>, result |-> TRUE])

\* deisolateHost: every delete is run; success is cleared by each failing one
RECURSIVE deisolateFrom(_, _, _)
deisolateFrom(i, oks, acc) ==
    IF i > Len(DeisolateOrder)
    THEN acc
    ELSE LET r == DeisolateOrder[i]
         IN  deisolateFrom(i + 1, oks,
                 [store    |-> runNetshDelete(acc.store, r, oks[i]),
                  attempts |-> Append(acc.attempts, [rule |-> r, ok |-> oks[i]]),
                  result   |-> IF ~oks[i] THEN FALSE ELSE acc.result])

deisolateHost(store, oks) ==
    deisolateFrom(1, oks, [store |-> store, attempts |-> <<>>, result |-> TRUE])

FwNone == [op |-> "none", oks |-> [i \in 1..4 |-> TRUE], attempts |-> <<>>,
           result |-> FALSE, before |-> [r \in RuleNames |-> 0],
           prevOp |-> "none", base |-> [r \in RuleNames |-> 0], allOk |-> TRUE]

\* the record of one call: what it attempted and returned, the store it found
\* (before), the call that preceded it (prevOp), the store found by the first
\* call of the run of consecutive isolateHost calls it ends or continues (base),
\* and whether every netsh command of every call so far exited with 0 (allOk)
FwCall(op, oks, run, store, prev) ==
    [op |-> op, oks |-> oks, attempts |-> run.attempts, result |-> run.result,
     before |-> store, prevOp |-> prev.op,
     base |-> IF prev.op = "isolate" THEN prev.base ELSE store,
     allOk |-> prev.allOk /\ \A i \in 1..Len(run.attempts) : run.attempts[i].ok]

InitFw ==
    /\ rules = [r \in RuleNames |-> 0]
    /\ fwLast = FwNone

IsolateHost ==
    \E oks \in NetshOutcomes :
        LET run == isolateHost(rules, oks)
        IN  /\ \A r \in RuleNames : rules[r] < MaxRules
            /\ rules' = run.store
            /\ fwLast' = FwCall("isolate", oks, run, rules, fwLast)

DeisolateHost ==
    \E oks \in NetshOutcomes :
        LET run == deisolateHost(rules, oks)
        IN  /\ rules' = run.store
            /\ fwLast' = FwCall("deisolate", oks, run, rules, fwLast)

----------------------------------------------------------------------------
(* Process termination: killProcess, killProcessTree *)

Pids == 0..MaxPid

\* a pid that names no process of any table (OpenProcess fails with error 87)
NoSuchPid == MaxPid + 1

\* call depth at which the recursion of killProcessTree exhausts the thread's stack;
\* deeper than any chain of distinct processes
MaxDepth == MaxPid + 2

\* what the OS does with one killProcess attempt on a live process
KillOutcomes == {"ok", "open_fail", "terminate_fail", "wait_timeout"}

RECURSIVE SortedSeq(_)
SortedSeq(S) ==
    IF S = {} THEN <<>>
    ELSE LET m == CHOOSE x \in S : \A y \in S : x <= y
         IN  <<m>> \o SortedSeq(S \ {m})

\* the Process32First/Process32Next walk: the snapshot's entries whose parent is pid
snapshotChildren(pid, P) == {c \in DOMAIN P : P[c] = pid}

\* killProcess as it would be with the result of TerminateProcess returned and the
\* wait's result ignored
killProcessNoVerify(pid, P, out) ==
    LET outcome == IF pid \in DOMAIN P THEN out[pid] ELSE "open_fail"
    IN  [procs   |-> IF outcome = "ok" THEN [q \in DOMAIN P \ {pid} |-> P[q]] ELSE P,
         outcome |-> outcome,
         ret     |-> (outcome \in {"ok", "wait_timeout"})]

\* killProcess: OpenProcess, TerminateProcess, WaitForSingleObject(2000);
\* true only when the wait returned WAIT_OBJECT_0
killProcess(pid, P, out) ==
    LET outcome == IF pid \in DOMAIN P THEN out[pid] ELSE "open_fail"
    IN  [procs   |-> IF outcome = "ok" THEN [q \in DOMAIN P \ {pid} |-> P[q]] ELSE P,
         outcome |-> outcome,
         ret     |-> (outcome = "ok")]

RECURSIVE killProcessTree(_, _, _, _, _)
RECURSIVE killChildren(_, _, _, _)

\* the "for (unsigned long childPid : children) killProcessTree(childPid);" loop:
\* every return value is dropped
killChildren(kids, acc, out, depth) ==
    IF kids = <<>> \/ acc.overflow
    THEN acc
    ELSE LET r == killProcessTree(Head(kids), acc.procs, out, depth, acc.log)
         IN  killChildren(Tail(kids),
                          [procs |-> r.procs, log |-> r.log, overflow |-> r.overflow],
                          out, depth)

\* killProcessTree: snapshot, recurse into the children, then kill pid itself
killProcessTree(pid, P, out, depth, log) ==
    IF depth > MaxDepth
    THEN [procs |-> P, log |-> log, ret |-> FALSE, overflow |-> TRUE]
    ELSE LET kids == snapshotChildren(pid, P)
             sub  == killChildren(SortedSeq(kids),
                                  [procs |-> P, log |-> log, overflow |-> FALSE],
                                  out, depth + 1)
             k    == killProcess(pid, sub.procs, out)
         IN  IF sub.overflow
             THEN [procs |-> sub.procs, log |-> sub.log, ret |-> FALSE, overflow |-> TRUE]
             ELSE [procs    |-> k.procs,
                   log      |-> Append(sub.log,
                                   [pid |-> pid, kids |-> kids, outcome |-> k.outcome]),
                   ret      |-> k.ret,
                   overflow |-> FALSE]

\* the processes reachable from the pids of S by walking the parent-of relation downwards
RECURSIVE Reach(_, _)
Reach(S, P) ==
    LET next == S \cup {c \in DOMAIN P : P[c] \in S}
    IN  IF next = S THEN S ELSE Reach(next, P)

\* process tables the OS can present: pid 0 is always listed, with itself as parent
ProcessTables ==
    UNION {{P \in [A \cup {0} -> Pids] : P[0] = 0} : A \in SUBSET (1..MaxPid)}

KillNone == [op |-> "none", pid |-> 0, before |-> [p \in {0} |-> 0], log |-> <<>>,
             ret |-> FALSE, overflow |-> FALSE]

InitKill ==
    /\ procs \in ProcessTables
    /\ killLast = KillNone

\* one termination request against the current process table
KillProcessTree ==
    \E pid \in Pids \cup {NoSuchPid} :
      \E F \in SUBSET (Reach({pid}, procs) \cap DOMAIN procs) :
        \E mode \in KillOutcomes \ {"ok"} :
          LET out == [p \in Pids |-> IF p \in F THEN mode ELSE "ok"]
              run == killProcessTree(pid, procs, out, 1, <<>>)
          IN  /\ procs' = run.procs
              /\ killLast' = [op |-> "kill", pid |-> pid, before |-> procs,
                              log |-> run.log, ret |-> run.ret,
                              overflow |-> run.overflow]

----------------------------------------------------------------------------
(* Command strings and the nlohmann::json operations executeCommand applies *)

JsonKinds == {"null", "bool", "number", "string", "array", "object"}

\* a member of a JSON object: absent, or a value of some kind (s: its text when a
\* string, n: its value when a number)
Absent == [k |-> "absent", s |-> "", n |-> 0]
JStr(s) == [k |-> "string", s |-> s, n |-> 0]
JNum(n) == [k |-> "number", s |-> "", n |-> n]
JOther(kind) == [k |-> kind, s |-> "", n |-> 0]

\* the strings executeCommand compares the "type" member with, and two it does not
TypeStrings == {"ping", "auth", "system_info", "reverse_shell", "echo", "event",
                "kill_process", "isolate_host", "deisolate_host", "command", "bogus"}

\* the strings the auth handler compares the "message" member with, and one other
MessageStrings == {"Authentication required", "Authentication successful", "hello"}

TypeValues == {Absent} \cup {JOther(kd) : kd \in JsonKinds \ {"string"}}
                       \cup {JStr(t) : t \in TypeStrings}

MessageValues == {Absent} \cup {JOther(kd) : kd \in JsonKinds \ {"string"}}
                          \cup {JStr(m) : m \in MessageStrings}

PidValues == {Absent} \cup {JOther(kd) : kd \in JsonKinds \ {"number"}}
                      \cup {JNum(n) : n \in Pids \cup {NoSuchPid}}

\* the "parameters" member: absent, a non-object, or an object with a "pid" member
NoParameters == [k |-> "absent", pid |-> Absent]
ParameterValues ==
    {NoParameters} \cup {[k |-> kd, pid |-> Absent] : kd \in JsonKinds \ {"object"}}
                   \cup {[k |-> "object", pid |-> v] : v \in PidValues}

\* a command string: text that json::parse rejects, a JSON value that is not an
\* object, or a JSON object with the members executeCommand looks at
NotJson == [valid |-> FALSE, top |-> "null", type |-> Absent, message |-> Absent,
            parameters |-> NoParameters]
CommandStrings ==
    {NotJson}
    \cup {[valid |-> TRUE, top |-> kd, type |-> Absent, message |-> Absent,
           parameters |-> NoParameters] : kd \in JsonKinds \ {"object"}}
    \cup [valid : {TRUE}, top : {"object"}, type : TypeValues,
          message : MessageValues, parameters : ParameterValues]

\* a call that may throw: its value, or the exception
Returned(v) == [threw |-> FALSE, v |-> v]
Thrown == [threw |-> TRUE, v |-> ""]

\* the type of c as it would be read with value("type", "") in place of at("type")
parseTypeLenient(c) ==
    IF ~c.valid THEN Thrown
    ELSE IF c.top # "object" THEN Thrown
    ELSE IF c.type.k = "absent" THEN Returned("")
    ELSE IF c.type.k # "string" THEN Thrown
    ELSE Returned(c.type.s)

\* json::parse(command); commandJson.at("type").get<std::string>():
\* parse_error on bad text, type_error 304 when not an object, out_of_range 403
\* when there is no "type", type_error 302 when it is no string
parseType(c) ==
    IF ~c.valid THEN Thrown
    ELSE IF c.top # "object" THEN Thrown
    ELSE IF c.type.k = "absent" THEN Thrown
    ELSE IF c.type.k # "string" THEN Thrown
    ELSE Returned(c.type.s)

\* commandJson.value("message", ""): the default when the member is absent,
\* get<std::string>() of the member otherwise (type_error 302 when it is no string)
valueMessage(c) ==
    IF c.message.k = "absent" THEN Returned("")
    ELSE IF c.message.k # "string" THEN Thrown
    ELSE Returned(c.message.s)

\* commandJson.value("parameters", json::object())
valueParameters(c) ==
    IF c.parameters.k = "absent" THEN [k |-> "object", pid |-> Absent]
    ELSE c.parameters

\* commandJson.contains("message") && commandJson["message"].is_string()
hasStringMessage(c) == c.message.k # "absent" /\ c.message.k = "string"

\* params.contains("pid") && params["pid"].is_number()
hasNumberPid(params) ==
    params.k = "object" /\ params.pid.k # "absent" /\ params.pid.k = "number"

\* a json value a handler returns: an object (its dump given as text) or a string
JObject(text) == [k |-> "object", s |-> text]
JString(text) == [k |-> "string", s |-> text]

\* json::dump: a string is written between double quotes
dump(j) == IF j.k = "string" THEN "\"" \o j.s \o "\"" ELSE j.s

RespInvalid == "{type:error,status:invalid JSON or missing 'type' field}"
RespPong == "{type:ping,status:pong}"
RespAuthInfo == "{type:auth,info:{hostname,os,version,version_number,mac_address}}"
RespBadAuth == "{type:error,status:invalid authentication message}"
RespSystemInfo == "{type:system_info,info:{system_info}}"
RespSystemInfoFailed == "{type:error,status:failed to get system info}"
RespShellConfig == "{type:error,status:missing or invalid 'ip' or 'port'}"
RespShellStarted == "{type:reverse_shell,status:reverse shell started}"
RespShellFailed == "{type:error,status:failed to start reverse shell}"
RespBadMessage == "{type:error,status:missing or invalid 'message'}"
RespUnknown == "{type:error,status:unknown command}"
RespKilled == "{status:success,message:Process tree terminated}"
RespKillFailed == "{status:failed,message:Failed to terminate process,error_code}"
RespMissingPid == "{status:failed,message:Missing PID}"
RespIsolated == "{status:success,message:Host isolated}"
RespIsolateFailed == "{status:failed,message:Failed to isolate host}"
RespDeisolated == "{status:success,message:Host de-isolated}"
RespDeisolateFailed == "{status:failed,message:Failed to de-isolate host}"
RespUnknownAction == "{status:error,message:Unknown command type}"

\* what config.json holds where the handlers read it
\*   http_server:   "absent" (also when the file is missing), "string", "other"
\*   reverse_shell: "absent", "configured" (string ip, number port), "other"
ConfigFiles == [http_server : {"absent", "string", "other"},
                reverse_shell : {"absent", "configured", "other"}]

\* ConfigReader::getHttpServer: the member converted to std::string (type_error 302
\* when it is no string), "localhost" when there is none
getHttpServer(cfg) ==
    IF cfg.http_server = "absent" THEN Returned("localhost")
    ELSE IF cfg.http_server = "other" THEN Thrown
    ELSE Returned("server")

\* ConfigReader::getServerReverseShellIp / getServerReverseShellPort: the members
\* converted (type_error 302 on a wrong type), "" and -1 when not configured
getServerReverseShell(cfg) ==
    IF cfg.reverse_shell = "absent" THEN Returned("")
    ELSE IF cfg.reverse_shell = "other" THEN Thrown
    ELSE Returned("ip:port")

\* what the environment does during one executeCommand call
Environments == [oks : NetshOutcomes, out : [Pids -> KillOutcomes],
                 cfg : ConfigFiles, sysinfo : BOOLEAN]

\* the host as a handler sees and leaves it
Host(r, f, p, kl, sh) == [rules |-> r, fwLast |-> f, procs |-> p, killLast |-> kl, shells |-> sh]

\* the end of a handler: the json it returns, or an exception, or the stack exhausted
Done(j, h) == [outcome |-> "returned", json |-> j, host |-> h]
Raised(h) == [outcome |-> "exception", json |-> JString(""), host |-> h]
Overflowed(h) == [outcome |-> "stack_overflow", json |-> JString(""), host |-> h]

\* executeResponseCommand(type, params)
executeResponseCommand(type, params, env, h) ==
    IF type = "kill_process" THEN
        IF hasNumberPid(params)
        THEN LET run == killProcessTree(params.pid.n, h.procs, env.out, 1, <<>>)
                 h2  == [h EXCEPT !.procs = run.procs,
                                  !.killLast = [op |-> "kill", pid |-> params.pid.n,
                                                before |-> h.procs, log |-> run.log,
                                                ret |-> run.ret,
                                                overflow |-> run.overflow]]
             IN  IF run.overflow THEN Overflowed(h2)
                 ELSE IF run.ret THEN Done(JObject(RespKilled), h2)
                 ELSE Done(JObject(RespKillFailed), h2)
        ELSE Done(JObject(RespMissingPid), h)
    ELSE IF type = "isolate_host" THEN
        LET ip == getHttpServer(env.cfg)
        IN  IF ip.threw THEN Raised(h)
            ELSE LET run == isolateHost(h.rules, env.oks)
                     h2  == [h EXCEPT !.rules = run.store,
                                      !.fwLast = FwCall("isolate", env.oks, run,
                                                        h.rules, h.fwLast)]
                 IN  IF run.result THEN Done(JObject(RespIsolated), h2)
                     ELSE Done(JObject(RespIsolateFailed), h2)
    ELSE IF type = "deisolate_host" THEN
        LET run == deisolateHost(h.rules, env.oks)
            h2  == [h EXCEPT !.rules = run.store,
                             !.fwLast = FwCall("deisolate", env.oks, run,
                                               h.rules, h.fwLast)]
        IN  IF run.result THEN Done(JObject(RespDeisolated), h2)
            ELSE Done(JObject(RespDeisolateFailed), h2)
    ELSE Done(JObject(RespUnknownAction), h)

\* the lambda executeCommandByType of executeCommand
executeCommandByType(commandType, c, env, h) ==
    IF commandType = "ping" THEN Done(JObject(RespPong), h)
    ELSE IF commandType = "auth" THEN
        LET m == valueMessage(c)
        IN  IF m.threw THEN Raised(h)
            ELSE IF m.v = "Authentication required" THEN Done(JObject(RespAuthInfo), h)
            ELSE IF m.v = "Authentication successful" THEN Done(JString(""), h)
            ELSE Done(JObject(RespBadAuth), h)
    ELSE IF commandType = "system_info" THEN
        IF env.sysinfo THEN Done(JObject(RespSystemInfo), h)
        ELSE Done(JObject(RespSystemInfoFailed), h)
    ELSE IF commandType = "reverse_shell" THEN
        LET target == getServerReverseShell(env.cfg)
        IN  IF target.threw THEN Raised(h)
            ELSE IF target.v = "" THEN Done(JObject(RespShellConfig), h)
            ELSE Done(JObject(RespShellStarted), [h EXCEPT !.shells = @ + 1])
    ELSE IF commandType = "echo" THEN
        IF hasStringMessage(c) THEN Done(JString(""), h)
        ELSE Done(JObject(RespBadMessage), h)
    ELSE IF commandType = "event" THEN
        IF hasStringMessage(c) THEN Done(JString(""), h)
        ELSE Done(JObject(RespBadMessage), h)
    ELSE Done(JObject(RespUnknown), h)

\* executeCommand(command): the string returned, or how the call ended otherwise
executeCommand(c, env, h) ==
    LET t == parseType(c)
    IN  IF t.threw
        THEN [outcome |-> "returned", resp |-> RespInvalid, host |-> h]
        ELSE LET r == IF t.v \in {"kill_process", "isolate_host", "deisolate_host"}
                      THEN executeResponseCommand(t.v, valueParameters(c), env, h)
                      ELSE executeCommandByType(t.v, c, env, h)
             IN  [outcome |-> r.outcome,
                  resp    |-> IF r.outcome = "returned" THEN dump(r.json) ELSE "",
                  host    |-> r.host]

\* the environments that differ for command c: only what its handler reads varies
DefaultEnv == [oks |-> [i \in 1..4 |-> TRUE], out |-> [p \in Pids |-> "ok"],
               cfg |-> [http_server |-> "absent", reverse_shell |-> "absent"],
               sysinfo |-> TRUE]
EnvironmentsFor(c, P) ==
    LET t == parseType(c)
    IN  IF t.threw THEN {DefaultEnv}
        ELSE IF t.v = "kill_process" /\ hasNumberPid(valueParameters(c))
        THEN LET live == Reach({c.parameters.pid.n}, P) \cap DOMAIN P
             IN  {[DefaultEnv EXCEPT !.out = [p \in Pids |-> IF p \in F THEN mode ELSE "ok"]] :
                      F \in SUBSET live, mode \in KillOutcomes \ {"ok"}}
        ELSE IF t.v = "isolate_host"
        THEN {[DefaultEnv EXCEPT !.oks = o, !.cfg.http_server = hs] :
                  o \in NetshOutcomes, hs \in {"absent", "string", "other"}}
        ELSE IF t.v = "deisolate_host"
        THEN {[DefaultEnv EXCEPT !.oks = o] : o \in NetshOutcomes}
        ELSE IF t.v = "reverse_shell"
        THEN {[DefaultEnv EXCEPT !.cfg.reverse_shell = rs] :
                  rs \in {"absent", "configured", "other"}}
        ELSE IF t.v = "system_info"
        THEN {[DefaultEnv EXCEPT !.sysinfo = b] : b \in BOOLEAN}
        ELSE {DefaultEnv}

\* a process table with a chain of children below pid 1
ChainProcs == [p \in Pids |-> IF p = 0 THEN 0 ELSE p - 1]

CmdIdle ==
    /\ cmd = NotJson
    /\ cmdPc = "done"
    /\ cmdOutcome = "returned"
    /\ cmdResp = ""

InitCmd ==
    /\ cmd \in CommandStrings
    /\ cmdPc = "pending"
    /\ cmdOutcome = "returned"
    /\ cmdResp = ""

\* one call of executeCommand on the command string cmd
ExecuteCommand ==
    /\ cmdPc = "pending"
    /\ \E env \in EnvironmentsFor(cmd, procs) :
         LET r == executeCommand(cmd, env, Host(rules, fwLast, procs, killLast, shells))
         IN  /\ cmdPc' = "done"
             /\ cmdOutcome' = r.outcome
             /\ cmdResp' = r.resp
             /\ rules' = r.host.rules
             /\ fwLast' = r.host.fwLast
             /\ procs' = r.host.procs
             /\ killLast' = r.host.killLast
             /\ shells' = r.host.shells
             /\ UNCHANGED cmd

----------------------------------------------------------------------------
(* Polling loop: pollCommandsLoop, startCommandPolling, stopCommandPolling *)

PollThreads == 1..MaxPollThreads

\* what client.GET(".../commands/poll/") can return: nothing (also on failure),
\* the empty object, text that is no JSON, or a JSON object
\*   id: the "command_id" member; type, parameters: as in a command string
NoEnvelope == [body |-> "empty", id |-> Absent, type |-> Absent, parameters |-> NoParameters]
PollResponses ==
    {NoEnvelope}
    \cup {[NoEnvelope EXCEPT !.body = b] : b \in {"{}", "not json"}}
    \cup [body : {"object"},
          id : {Absent, JStr("c1"), JOther("number")},
          type : {Absent, JOther("number"), JStr("ping"), JStr("kill_process"),
                  JStr("deisolate_host")},
          parameters : {NoParameters, [k |-> "object", pid |-> JNum(MaxPid)]}]

\* lines 317-323 of pollCommandsLoop: whether the response carries a command to
\* execute; a json exception (parse_error, type_error 302 on a member that is no
\* string) is caught by the catch of the cycle
pollAccepts(r) ==
    /\ r.body = "object"
    /\ r.id.k # "absent"
    /\ r.id.k = "string"
    /\ r.type.k = "string"

\* the environments of one polled execution
PollEnvironments ==
    {DefaultEnv,
     [DefaultEnv EXCEPT !.oks = [i \in 1..4 |-> i > 1],
                        !.out = [p \in Pids |-> "open_fail"]]}

\* the record of one cycle of the loop body: what the GET brought ("empty": no
\* body or the empty object, "command": an envelope the loop accepted, "skipped":
\* anything else), the command_id and type fetched, the number of
\* executeResponseCommand calls and of client.POST calls made, the command_id in
\* the POST's path, the result handed to the POST, whether the POST reached the
\* server ("none" before the POST), and, for comparison, the response
\* executeCommand returns for the same command on the same host
NoCycle == [fetched |-> "none", id |-> "", type |-> "", execs |-> 0, posts |-> 0,
            postedId |-> "", result |-> "", delivered |-> "none", dispatched |-> ""]

PollIdle ==
    /\ pollingActive = FALSE
    /\ pollMutex = 0
    /\ pollPc = [t \in PollThreads |-> "none"]
    /\ pollCmd = [t \in PollThreads |-> NoEnvelope]
    /\ pollWake = [t \in PollThreads |-> "none"]
    /\ pollCycle = [t \in PollThreads |-> NoCycle]
    /\ ctlPc = "idle"

\* startCommandPolling: the flag is found clear and set
StartCommandPolling ==
    /\ ctlPc = "idle"
    /\ ~pollingActive
    /\ \E t \in PollThreads : pollPc[t] = "none"
    /\ pollingActive' = TRUE
    /\ ctlPc' = "start_thread"
    /\ UNCHANGED <<pollMutex, pollPc, pollCmd, pollWake, pollCycle>>

\* startCommandPolling: pollThread = std::thread(pollCommandsLoop); pollThread.detach()
StartThread ==
    /\ ctlPc = "start_thread"
    /\ LET t == CHOOSE u \in PollThreads : pollPc[u] = "none"
       IN  pollPc' = [pollPc EXCEPT ![t] = "top"]
    /\ ctlPc' = "idle"
    /\ UNCHANGED <<pollingActive, pollMutex, pollCmd, pollWake, pollCycle>>

\* stopCommandPolling: when the flag is found set it is cleared; when it is found
\* clear the body of the if is skipped
StopCommandPolling ==
    /\ ctlPc = "idle"
    /\ IF pollingActive
       THEN /\ pollingActive' = FALSE
            /\ ctlPc' = "stop_notify"
       ELSE /\ pollingActive' = pollingActive
            /\ ctlPc' = "stop_return"
    /\ UNCHANGED <<pollMutex, pollPc, pollCmd, pollWake, pollCycle>>

\* stopCommandPolling returns without having done anything
StopReturn ==
    /\ ctlPc = "stop_return"
    /\ ctlPc' = "idle"
    /\ UNCHANGED <<pollingActive, pollMutex, pollPc, pollCmd, pollWake, pollCycle>>

\* stopCommandPolling: pollCV.notify_all(); the detached pollThread is not joinable,
\* so the call returns
StopNotify ==
    /\ ctlPc = "stop_notify"
    /\ pollPc' = [t \in PollThreads |-> IF pollPc[t] = "wait" THEN "relock" ELSE pollPc[t]]
    /\ pollWake' = [t \in PollThreads |-> IF pollPc[t] = "wait" THEN "notify" ELSE pollWake[t]]
    /\ ctlPc' = "idle"
    /\ UNCHANGED <<pollCycle, pollingActive, pollMutex, pollCmd>>

\* while (pollingActive)
PollTop(t) ==
    /\ pollPc[t] = "top"
    /\ pollPc' = [pollPc EXCEPT ![t] = IF pollingActive THEN "get" ELSE "exited"]
    /\ UNCHANGED <<pollingActive, pollMutex, pollCmd, pollWake, pollCycle, ctlPc>>

\* the examination of the response as it would be without the catch of the
\* cycle: a json exception leaves pollCommandsLoop and ends the thread
PollGetUncaught(t) ==
    /\ pollPc[t] = "get"
    /\ \E r \in PollResponses :
         IF pollAccepts(r)
         THEN /\ pollCmd' = [pollCmd EXCEPT ![t] = r]
              /\ pollPc' = [pollPc EXCEPT ![t] = "exec"]
              /\ pollCycle' = [pollCycle EXCEPT ![t] =
                                  [NoCycle EXCEPT !.fetched = "command", !.id = r.id.s,
                                                  !.type = r.type.s]]
         ELSE /\ pollCmd' = pollCmd
              /\ pollPc' = [pollPc EXCEPT ![t] =
                                IF r.body \in {"empty", "{}"} THEN "lock"
                                ELSE "crashed"]
              /\ pollCycle' = [pollCycle EXCEPT ![t] =
                                  [NoCycle EXCEPT !.fetched =
                                      IF r.body \in {"empty", "{}"} THEN "empty"
                                      ELSE "skipped"]]
    /\ UNCHANGED <<pollingActive, pollMutex, pollWake, ctlPc>>

\* client.GET returns and the response is examined
PollGet(t) ==
    /\ pollPc[t] = "get"
    /\ \E r \in PollResponses :
         IF pollAccepts(r)
         THEN /\ pollCmd' = [pollCmd EXCEPT ![t] = r]
              /\ pollPc' = [pollPc EXCEPT ![t] = "exec"]
              /\ pollCycle' = [pollCycle EXCEPT ![t] =
                                  [NoCycle EXCEPT !.fetched = "command", !.id = r.id.s,
                                                  !.type = r.type.s]]
         ELSE /\ pollCmd' = pollCmd
              /\ pollPc' = [pollPc EXCEPT ![t] = "lock"]
              /\ pollCycle' = [pollCycle EXCEPT ![t] =
                                  [NoCycle EXCEPT !.fetched =
                                      IF r.body \in {"empty", "{}"} THEN "empty"
                                      ELSE "skipped"]]
    /\ UNCHANGED <<pollingActive, pollMutex, pollWake, ctlPc>>

\* json result = executeResponseCommand(commandType, params)
PollExecute(t) ==
    /\ pollPc[t] = "exec"
    /\ \E env \in PollEnvironments :
         LET c == [valid |-> TRUE, top |-> "object", type |-> pollCmd[t].type,
                   message |-> Absent, parameters |-> pollCmd[t].parameters]
             r == executeResponseCommand(pollCmd[t].type.s, valueParameters(c), env,
                                         Host(rules, fwLast, procs, killLast, shells))
         IN  /\ rules' = r.host.rules
             /\ fwLast' = r.host.fwLast
             /\ procs' = r.host.procs
             /\ killLast' = r.host.killLast
             /\ shells' = r.host.shells
             /\ pollPc' = [pollPc EXCEPT ![t] =
                               IF r.outcome = "returned" THEN "post"
                               ELSE IF r.outcome = "exception" THEN "lock"
                               ELSE "crashed"]
             /\ pollCycle' = [pollCycle EXCEPT
                    ![t].execs = @ + 1,
                    ![t].result = IF r.outcome = "returned" THEN dump(r.json) ELSE "",
                    ![t].dispatched =
                        executeCommand(c, env,
                                       Host(rules, fwLast, procs, killLast, shells)).resp]
    /\ UNCHANGED <<pollingActive, pollMutex, pollCmd, pollWake, ctlPc>>

\* the POST as it would be if the result were reported twice
PollPostTwice(t) ==
    /\ pollPc[t] = "post"
    /\ pollCmd' = [pollCmd EXCEPT ![t] = NoEnvelope]
    /\ pollPc' = [pollPc EXCEPT ![t] = "lock"]
    /\ \E delivered \in {"ok", "failed"} :
           pollCycle' = [pollCycle EXCEPT ![t].posts = @ + 2,
                                         ![t].postedId = pollCmd[t].id.s,
                                         ![t].delivered = delivered]
    /\ UNCHANGED <<pollingActive, pollMutex, pollWake, ctlPc>>

\* client.POST(".../commands/result/<id>/", result.dump()) returns, with the
\* server's answer or, after a failure, with the empty string; the loop looks at
\* neither
PollPost(t) ==
    /\ pollPc[t] = "post"
    /\ pollCmd' = [pollCmd EXCEPT ![t] = NoEnvelope]
    /\ pollPc' = [pollPc EXCEPT ![t] = "lock"]
    /\ \E delivered \in {"ok", "failed"} :
           pollCycle' = [pollCycle EXCEPT ![t].posts = @ + 1,
                                         ![t].postedId = pollCmd[t].id.s,
                                         ![t].delivered = delivered]
    /\ UNCHANGED <<pollingActive, pollMutex, pollWake, ctlPc>>

\* std::unique_lock<std::mutex> lock(pollMutex)
PollLock(t) ==
    /\ pollPc[t] = "lock"
    /\ pollMutex = 0
    /\ pollMutex' = t
    /\ pollPc' = [pollPc EXCEPT ![t] = "pred"]
    /\ pollCycle' = [pollCycle EXCEPT ![t] = NoCycle]
    /\ UNCHANGED <<pollingActive, pollCmd, pollWake, ctlPc>>

\* wait_for evaluates the predicate !pollingActive with the lock held: when it
\* holds the wait is over and the lock is released at the end of the loop body
PollPred(t) ==
    /\ pollPc[t] = "pred"
    /\ IF ~pollingActive
       THEN /\ pollMutex' = 0
            /\ pollPc' = [pollPc EXCEPT ![t] = "top"]
       ELSE /\ pollMutex' = pollMutex
            /\ pollPc' = [pollPc EXCEPT ![t] = "enter_wait"]
    /\ UNCHANGED <<pollingActive, pollCmd, pollWake, pollCycle, ctlPc>>

\* the wait releases the lock and blocks on pollCV
PollWait(t) ==
    /\ pollPc[t] = "enter_wait"
    /\ pollMutex' = 0
    /\ pollPc' = [pollPc EXCEPT ![t] = "wait"]
    /\ pollWake' = [pollWake EXCEPT ![t] = "none"]
    /\ UNCHANGED <<pollCycle, pollingActive, pollCmd, ctlPc>>

\* the 5 seconds elapse
PollTimeout(t) ==
    /\ pollPc[t] = "wait"
    /\ pollPc' = [pollPc EXCEPT ![t] = "relock"]
    /\ pollWake' = [pollWake EXCEPT ![t] = "timeout"]
    /\ UNCHANGED <<pollCycle, pollingActive, pollMutex, pollCmd, ctlPc>>

\* the wait re-acquires the lock: after a timeout wait_for returns, after a
\* notification it evaluates the predicate again
PollRelock(t) ==
    /\ pollPc[t] = "relock"
    /\ pollMutex = 0
    /\ IF pollWake[t] = "timeout"
       THEN /\ pollMutex' = 0
            /\ pollPc' = [pollPc EXCEPT ![t] = "top"]
       ELSE /\ pollMutex' = t
            /\ pollPc' = [pollPc EXCEPT ![t] = "pred"]
    /\ UNCHANGED <<pollingActive, pollCmd, pollWake, pollCycle, ctlPc>>

----------------------------------------------------------------------------
(* Push channel: WebSocketClient *)

m_max_retries == 0
InitialRetryDelayMs == 5000
m_max_retry_delay_ms == 60000

Stages == {"resolve", "connect", "handshake", "read"}
PostKinds == {"write", "close"}

\* the positions at which m_io_thread is about to take m_mutex
IoLockPoints == {"sr_lock", "hs_lock", "rd_lock", "send_lock"}

\* what the server can send: text that is no JSON, a JSON array, or a JSON object
WsMessages ==
    {NotJson}
    \cup {[NotJson EXCEPT !.valid = TRUE, !.top = "array"]}
    \cup [valid : {TRUE}, top : {"object"},
          type : {Absent, JOther("number"), JStr("command"),
                  JStr("connection_established"), JStr("heartbeat_ack"), JStr("ping")},
          message : {Absent},
          parameters : {NoParameters, [k |-> "object", pid |-> JNum(MaxPid)]}]

\* nlohmann::json::parse(message); data.value("type", ""): parse_error on bad text,
\* type_error 306 when not an object, type_error 302 when "type" is no string
messageType(msg) ==
    IF ~msg.valid THEN Thrown
    ELSE IF msg.top # "object" THEN Thrown
    ELSE IF msg.type.k = "absent" THEN Returned("")
    ELSE IF msg.type.k # "string" THEN Thrown
    ELSE Returned(msg.type.s)

\* the record of one on_read invocation: the message type and the response of
\* executeCommand when it ran, how the read ended (kind), and how many times the
\* invocation has called do_read (reads) and schedule_reconnect (reconnects)
ReadRecord(kind, type, resp, executed, reads, reconnects) ==
    [kind |-> kind, type |-> type, resp |-> resp, executed |-> executed,
     reads |-> reads, reconnects |-> reconnects]

NoDispatch == ReadRecord("none", "", "", FALSE, 0, 0)

WsIdle ==
    /\ m_open = FALSE
    /\ m_should_reconnect = TRUE
    /\ m_retry_count = 0
    /\ m_retry_delay_ms = InitialRetryDelayMs
    /\ m_mutex = "free"
    /\ apiPc = "idle"
    /\ ioPc = "none"
    /\ iocStopped = FALSE
    /\ chains = [st \in Stages |-> 0]
    /\ timer = "none"
    /\ timerDelay = 0
    /\ posts = [k \in PostKinds |-> 0]
    /\ wsDispatch = NoDispatch

PendingChains == chains["resolve"] + chains["connect"] + chains["handshake"] + chains["read"]

\* the event loop has something left to run or to wait for
IocHasWork ==
    \/ PendingChains > 0
    \/ timer \in {"armed", "fired", "aborted"}
    \/ posts["write"] + posts["close"] > 0

\* m_io_thread is inside m_ioc.run(), between handlers
IoReady == ioPc = "idle" /\ ~iocStopped

\* connect(uri): async_resolve is started and m_io_thread is created when there is
\* no joinable one; m_ioc.run() of a stopped context returns at once
Connect ==
    /\ apiPc = "idle"
    /\ PendingChains < MaxChains
    /\ chains' = [chains EXCEPT !["resolve"] = @ + 1]
    /\ ioPc' = IF ioPc = "none" THEN (IF iocStopped THEN "exited" ELSE "idle") ELSE ioPc
    /\ UNCHANGED <<m_open, m_should_reconnect, m_retry_count, m_retry_delay_ms, m_mutex,
                   apiPc, iocStopped, timer, timerDelay, posts, wsDispatch>>

\* send(data) from a calling thread: m_open is read under the lock, which is
\* released before anything else is done; when closed, send returns
SendCheck ==
    /\ apiPc = "idle"
    /\ m_mutex = "free"
    /\ posts["write"] < MaxPosts
    /\ apiPc' = IF m_open THEN "send_post" ELSE "idle"
    /\ UNCHANGED <<m_open, m_should_reconnect, m_retry_count, m_retry_delay_ms, m_mutex,
                   ioPc, iocStopped, chains, timer, timerDelay, posts, wsDispatch>>

\* send(data): net::post(m_ws->get_executor(), lambda) made on the calling thread
SendPost ==
    /\ apiPc = "send_post"
    /\ posts' = [posts EXCEPT !["write"] = @ + 1]
    /\ apiPc' = "idle"
    /\ UNCHANGED <<m_open, m_should_reconnect, m_retry_count, m_retry_delay_ms, m_mutex,
                   ioPc, iocStopped, chains, timer, timerDelay, wsDispatch>>

\* close(): m_should_reconnect = false under the lock
CloseBegin ==
    /\ apiPc = "idle"
    /\ m_mutex = "free"
    /\ m_should_reconnect' = FALSE
    /\ apiPc' = "close_cancel"
    /\ UNCHANGED <<m_open, m_retry_count, m_retry_delay_ms, m_mutex, ioPc, iocStopped,
                   chains, timer, timerDelay, posts, wsDispatch>>

\* close(): if (m_reconnect_timer) m_reconnect_timer->cancel()
CloseCancel ==
    /\ apiPc = "close_cancel"
    /\ timer' = IF timer = "armed" THEN "aborted" ELSE timer
    /\ UNCHANGED timerDelay
    /\ apiPc' = "close_check"
    /\ UNCHANGED <<m_open, m_should_reconnect, m_retry_count, m_retry_delay_ms, m_mutex,
                   ioPc, iocStopped, chains, posts, wsDispatch>>

\* the "check if already closed" block as it would be if it joined m_io_thread
\* without asking whether it is joinable
CloseCheckJoinAlways ==
    /\ apiPc = "close_check"
    /\ m_mutex = "free"
    /\ IF ~m_open
       THEN /\ m_mutex' = "api"
            /\ iocStopped' = TRUE
            /\ apiPc' = "close_join_locked"
            /\ UNCHANGED m_open
       ELSE /\ m_open' = FALSE
            /\ apiPc' = "close_post"
            /\ UNCHANGED <<m_mutex, iocStopped>>
    /\ UNCHANGED <<m_should_reconnect, m_retry_count, m_retry_delay_ms, ioPc, chains,
                   timer, timerDelay, posts, wsDispatch>>

\* close(): the "check if already closed" block; when m_open is false and the
\* thread is joinable, m_ioc.stop() and the join are made with the lock held
CloseCheck ==
    /\ apiPc = "close_check"
    /\ m_mutex = "free"
    /\ IF ~m_open
       THEN IF ioPc # "none"
            THEN /\ m_mutex' = "api"
                 /\ iocStopped' = TRUE
                 /\ apiPc' = "close_join_locked"
                 /\ UNCHANGED m_open
            ELSE /\ apiPc' = "idle"
                 /\ UNCHANGED <<m_mutex, iocStopped, m_open>>
       ELSE /\ m_open' = FALSE
            /\ apiPc' = "close_post"
            /\ UNCHANGED <<m_mutex, iocStopped>>
    /\ UNCHANGED <<m_should_reconnect, m_retry_count, m_retry_delay_ms, ioPc, chains,
                   timer, timerDelay, posts, wsDispatch>>

\* close(): m_io_thread.join() inside the locked block returns once run() has returned
CloseJoinLocked ==
    /\ apiPc = "close_join_locked"
    /\ ioPc = "exited"
    /\ ioPc' = "none"
    /\ m_mutex' = "free"
    /\ apiPc' = "idle"
    /\ UNCHANGED <<m_open, m_should_reconnect, m_retry_count, m_retry_delay_ms,
                   iocStopped, chains, timer, timerDelay, posts, wsDispatch>>

\* close(): net::post of the lambda that closes the socket
ClosePost ==
    /\ apiPc = "close_post"
    /\ posts' = [posts EXCEPT !["close"] = @ + 1]
    /\ apiPc' = "close_stop"
    /\ UNCHANGED <<m_open, m_should_reconnect, m_retry_count, m_retry_delay_ms, m_mutex,
                   ioPc, iocStopped, chains, timer, timerDelay, wsDispatch>>

\* close(): m_ioc.stop()
CloseStop ==
    /\ apiPc = "close_stop"
    /\ iocStopped' = TRUE
    /\ apiPc' = IF ioPc # "none" THEN "close_join" ELSE "idle"
    /\ UNCHANGED <<m_open, m_should_reconnect, m_retry_count, m_retry_delay_ms, m_mutex,
                   ioPc, chains, timer, timerDelay, posts, wsDispatch>>

\* close(): the join after the stop, made without the lock
CloseJoin ==
    /\ apiPc = "close_join"
    /\ ioPc = "exited"
    /\ ioPc' = "none"
    /\ apiPc' = "idle"
    /\ UNCHANGED <<m_open, m_should_reconnect, m_retry_count, m_retry_delay_ms, m_mutex,
                   iocStopped, chains, timer, timerDelay, posts, wsDispatch>>

\* m_ioc.run() returns: the context was stopped or ran out of work
IoExit ==
    /\ ioPc = "idle"
    /\ iocStopped \/ ~IocHasWork
    /\ ioPc' = "exited"
    /\ UNCHANGED <<m_open, m_should_reconnect, m_retry_count, m_retry_delay_ms, m_mutex,
                   apiPc, iocStopped, chains, timer, timerDelay, posts, wsDispatch>>

\* on_resolve, on_connect, on_handshake: the stage's operation completes; on an
\* error the handler goes to schedule_reconnect, on success it starts the next
\* stage (on_handshake: goes on to mark the connection open)
OnStage(st, next) ==
    /\ IoReady
    /\ chains[st] > 0
    /\ \E ok \in BOOLEAN :
         /\ ~ok => m_retry_count < MaxRetryCount
         /\ IF ~ok
            THEN /\ chains' = [chains EXCEPT ![st] = @ - 1]
                 /\ ioPc' = "sr_lock"
            ELSE IF st = "handshake"
            THEN /\ chains' = [chains EXCEPT ![st] = @ - 1]
                 /\ ioPc' = "hs_lock"
            ELSE /\ chains' = [chains EXCEPT ![st] = @ - 1, ![next] = @ + 1]
                 /\ ioPc' = "idle"
    /\ UNCHANGED <<m_open, m_should_reconnect, m_retry_count, m_retry_delay_ms, m_mutex,
                   apiPc, iocStopped, timer, timerDelay, posts, wsDispatch>>

OnResolve == OnStage("resolve", "connect")

OnConnect == OnStage("connect", "handshake")

OnHandshake == OnStage("handshake", "read")

\* on_handshake as it would be if it left m_retry_delay_ms as it is
HandshakeOpenKeepDelay ==
    /\ ioPc = "hs_lock"
    /\ m_mutex = "free"
    /\ m_open' = TRUE
    /\ m_retry_count' = 0
    /\ chains' = [chains EXCEPT !["read"] = @ + 1]
    /\ ioPc' = "idle"
    /\ UNCHANGED <<m_should_reconnect, m_retry_delay_ms, m_mutex, apiPc, iocStopped,
                   timer, timerDelay, posts, wsDispatch>>

\* on_handshake after success: under the lock m_open = true and the retry state is
\* reset; then do_read()
HandshakeOpen ==
    /\ ioPc = "hs_lock"
    /\ m_mutex = "free"
    /\ m_open' = TRUE
    /\ m_retry_count' = 0
    /\ m_retry_delay_ms' = 5000
    /\ chains' = [chains EXCEPT !["read"] = @ + 1]
    /\ ioPc' = "idle"
    /\ UNCHANGED <<m_should_reconnect, m_mutex, apiPc, iocStopped, timer, timerDelay, posts, wsDispatch>>

\* on_read with an error code (closed by the server, or any other error)
OnReadError ==
    /\ IoReady
    /\ chains["read"] > 0
    /\ m_retry_count < MaxRetryCount
    /\ chains' = [chains EXCEPT !["read"] = @ - 1]
    /\ ioPc' = "rd_lock"
    /\ wsDispatch' = ReadRecord("error", "", "", FALSE, 0, 0)
    /\ UNCHANGED <<m_open, m_should_reconnect, m_retry_count, m_retry_delay_ms, m_mutex,
                   apiPc, iocStopped, timer, timerDelay, posts>>

\* on_read after an error as it would be if it also called do_read()
ReadMarkClosedAndRead ==
    /\ ioPc = "rd_lock"
    /\ m_mutex = "free"
    /\ m_open' = FALSE
    /\ ioPc' = "sr_lock"
    /\ chains' = [chains EXCEPT !["read"] = @ + 1]
    /\ wsDispatch' = [wsDispatch EXCEPT !.reconnects = @ + 1, !.reads = @ + 1]
    /\ UNCHANGED <<m_should_reconnect, m_retry_count, m_retry_delay_ms, m_mutex, apiPc,
                   iocStopped, timer, timerDelay, posts>>

\* on_read after an error: under the lock m_open = false; then schedule_reconnect()
ReadMarkClosed ==
    /\ ioPc = "rd_lock"
    /\ m_mutex = "free"
    /\ m_open' = FALSE
    /\ ioPc' = "sr_lock"
    /\ wsDispatch' = [wsDispatch EXCEPT !.reconnects = @ + 1]
    /\ UNCHANGED <<m_should_reconnect, m_retry_count, m_retry_delay_ms, m_mutex, apiPc,
                   iocStopped, chains, timer, timerDelay, posts>>

\* on_read with a message: the try block of lines 239-262; a message of type
\* "command" is handed whole to CommandProcessor::executeCommand and a non-empty
\* response goes to send(); everything else is logged; then do_read()
OnReadMessage ==
    /\ IoReady
    /\ chains["read"] > 0
    /\ \E msg \in WsMessages :
         LET t == messageType(msg)
         IN  IF ~t.threw /\ t.v = "command"
             THEN \E env \in EnvironmentsFor(msg, procs) :
                    LET r == executeCommand(msg, env,
                                            Host(rules, fwLast, procs, killLast, shells))
                    IN  /\ rules' = r.host.rules
                        /\ fwLast' = r.host.fwLast
                        /\ procs' = r.host.procs
                        /\ killLast' = r.host.killLast
                        /\ shells' = r.host.shells
                        /\ IF r.outcome = "returned" /\ r.resp # ""
                           THEN /\ ioPc' = "send_lock"
                                /\ chains' = [chains EXCEPT !["read"] = @ - 1]
                                /\ wsDispatch' = ReadRecord("message", t.v, r.resp,
                                                            TRUE, 0, 0)
                           ELSE /\ ioPc' = "idle"
                                /\ chains' = chains
                                /\ wsDispatch' = ReadRecord("message", t.v, r.resp,
                                                            TRUE, 1, 0)
             ELSE /\ wsDispatch' = ReadRecord("message", IF t.threw THEN "" ELSE t.v,
                                              "", FALSE, 1, 0)
                  /\ ioPc' = "idle"
                  /\ chains' = chains
                  /\ UNCHANGED hostVars
    /\ UNCHANGED <<m_open, m_should_reconnect, m_retry_count, m_retry_delay_ms, m_mutex,
                   apiPc, iocStopped, timer, timerDelay, posts>>

\* send(response) called from on_read, then do_read()
SendFromRead ==
    /\ ioPc = "send_lock"
    /\ m_mutex = "free"
    /\ posts["write"] < MaxPosts
    /\ posts' = IF m_open THEN [posts EXCEPT !["write"] = @ + 1] ELSE posts
    /\ chains' = [chains EXCEPT !["read"] = @ + 1]
    /\ ioPc' = "idle"
    /\ wsDispatch' = [wsDispatch EXCEPT !.reads = @ + 1]
    /\ UNCHANGED <<m_open, m_should_reconnect, m_retry_count, m_retry_delay_ms, m_mutex,
                   apiPc, iocStopped, timer, timerDelay>>

\* schedule_reconnect as it would be if it counted the retry and armed no timer
ScheduleReconnectWithoutTimer ==
    /\ ioPc = "sr_lock"
    /\ m_mutex = "free"
    /\ IF ~m_should_reconnect
       THEN UNCHANGED <<m_retry_count, m_retry_delay_ms>>
       ELSE /\ m_retry_count' = m_retry_count + 1
            /\ m_retry_delay_ms' = IF m_retry_delay_ms * 2 < m_max_retry_delay_ms
                                   THEN m_retry_delay_ms * 2
                                   ELSE m_max_retry_delay_ms
    /\ ioPc' = "idle"
    /\ UNCHANGED <<m_open, m_should_reconnect, m_mutex, apiPc, iocStopped, chains, posts,
                   wsDispatch, timer, timerDelay>>

\* schedule_reconnect(): under the lock; nothing when reconnection is disabled or
\* the retries are used up, else the timer is armed for m_retry_delay_ms and the
\* delay doubled up to the cap
ScheduleReconnect ==
    /\ ioPc = "sr_lock"
    /\ m_mutex = "free"
    /\ IF ~m_should_reconnect
       THEN UNCHANGED <<m_retry_count, m_retry_delay_ms, timer, timerDelay>>
       ELSE IF m_max_retries > 0 /\ m_retry_count >= m_max_retries
       THEN UNCHANGED <<m_retry_count, m_retry_delay_ms, timer, timerDelay>>
       ELSE /\ m_retry_count' = m_retry_count + 1
            /\ timer' = "armed"
            /\ timerDelay' = m_retry_delay_ms
            /\ m_retry_delay_ms' = IF m_retry_delay_ms * 2 < m_max_retry_delay_ms
                                   THEN m_retry_delay_ms * 2
                                   ELSE m_max_retry_delay_ms
    /\ ioPc' = "idle"
    /\ UNCHANGED <<m_open, m_should_reconnect, m_mutex, apiPc, iocStopped, chains, posts,
                   wsDispatch>>

\* the delay of the armed timer elapses
TimerExpire ==
    /\ timer = "armed"
    /\ timer' = "fired"
    /\ UNCHANGED timerDelay
    /\ UNCHANGED <<m_open, m_should_reconnect, m_retry_count, m_retry_delay_ms, m_mutex,
                   apiPc, ioPc, iocStopped, chains, posts, wsDispatch>>

\* the async_wait handler: do_reconnect() unless the wait was cancelled
OnTimer ==
    /\ IoReady
    /\ timer \in {"fired", "aborted"}
    /\ timer = "fired" => PendingChains < MaxChains
    /\ ioPc' = IF timer = "fired" THEN "do_reconnect" ELSE "idle"
    /\ timer' = "idle"
    /\ UNCHANGED <<m_open, m_should_reconnect, m_retry_count, m_retry_delay_ms, m_mutex,
                   apiPc, iocStopped, chains, timerDelay, posts, wsDispatch>>

\* do_reconnect as it would be if it put the delay back to its initial value
DoReconnectResettingDelay ==
    /\ ioPc = "do_reconnect"
    /\ chains' = [chains EXCEPT !["resolve"] = @ + 1]
    /\ ioPc' = "idle"
    /\ m_retry_delay_ms' = InitialRetryDelayMs
    /\ UNCHANGED <<m_open, m_should_reconnect, m_retry_count, m_mutex,
                   apiPc, iocStopped, timer, timerDelay, posts, wsDispatch>>

\* do_reconnect(): m_ws.reset(new stream) and async_resolve again
DoReconnect ==
    /\ ioPc = "do_reconnect"
    /\ chains' = [chains EXCEPT !["resolve"] = @ + 1]
    /\ ioPc' = "idle"
    /\ UNCHANGED <<m_open, m_should_reconnect, m_retry_count, m_retry_delay_ms, m_mutex,
                   apiPc, iocStopped, timer, timerDelay, posts, wsDispatch>>

\* a posted lambda runs: the synchronous write of send(), or the close of close()
RunPost(k) ==
    /\ IoReady
    /\ posts[k] > 0
    /\ posts' = [posts EXCEPT ![k] = @ - 1]
    /\ UNCHANGED <<m_open, m_should_reconnect, m_retry_count, m_retry_delay_ms, m_mutex,
                   apiPc, ioPc, iocStopped, chains, timer, timerDelay, wsDispatch>>

RunWrite == RunPost("write")

RunClose == RunPost("close")

\* the members guarded by m_mutex
SharedMembers == {"m_open", "m_should_reconnect", "m_retry_count", "m_retry_delay_ms",
                  "m_reconnect_timer"}

NoAccess == [members |-> {}, locked |-> TRUE]

\* the guarded members the next statement of the calling thread reads or writes,
\* and whether that statement runs inside a std::lock_guard on m_mutex
ApiAccess ==
    CASE apiPc = "close_cancel" -> [members |-> {"m_reconnect_timer"}, locked |-> FALSE]
      [] apiPc = "close_check"  -> [members |-> {"m_open"}, locked |-> TRUE]
      [] OTHER                  -> NoAccess

\* the same for the next statement of m_io_thread
IoAccess ==
    CASE ioPc = "hs_lock"   -> [members |-> {"m_open", "m_retry_count", "m_retry_delay_ms"},
                               locked |-> TRUE]
      [] ioPc = "rd_lock"   -> [members |-> {"m_open"}, locked |-> TRUE]
      [] ioPc = "send_lock" -> [members |-> {"m_open"}, locked |-> TRUE]
      [] ioPc = "sr_lock"   -> [members |-> {"m_should_reconnect", "m_retry_count",
                                            "m_retry_delay_ms", "m_reconnect_timer"},
                               locked |-> TRUE]
      [] OTHER              -> NoAccess

\* the positions at which a thread dereferences or replaces m_ws, the socket:
\* m_ws->get_executor() in send and close, m_ws.reset in do_reconnect
ApiOnSocket == apiPc \in {"send_post", "close_post"}
IoOnSocket == ioPc = "do_reconnect"

----------------------------------------------------------------------------
(* HTTP transport: HttpClient *)

\* the literal path of the first request of sendCompressedHttpPost
TelemetryPath == "/api/v1/telemetry/"

\* what the constructor can be given as apiPath: ConfigReader::getApiPath returns
\* the api_path member of config.json, or the default when there is none
ApiPaths == {"/api/v1/telemetry/", "/api/v2/ingest/"}

\* authToken, as the constructor builds it
AuthToken == "Token secret"

\* headers a caller can register: those pollCommandsLoop registers
HeaderPool == {<<"Authorization", AuthToken>>, <<"X-Agent-ID", "hostname">>}

\* the header strings the requests are given, as name-value pairs
JsonHeader == <<"Content-Type", "application/json">>
ZstdHeader == <<"Content-Encoding", "zstd">>
AuthHeader == <<"Authorization", AuthToken>>

\* the pairs of customHeaders as the loop "for (header : customHeaders)" emits them
headersOf(hdrs) == {hdrs[i] : i \in 1..Len(hdrs)}

\* HTTP status codes a server answers with
StatusCodes == {200, 201, 500}

\* WinHttpOpen / WinHttpConnect of one connect() call
ConnectOutcomes == {"ok", "open_fail", "connect_fail"}

\* what WinHTTP and the server do during one call of a request function:
\*   conn   outcome of each connect() call, in call order
\*   open   WinHttpOpenRequest of the first and of the retried request
\*   send   WinHttpSendRequest of the first and of the retried request
\*   recv   WinHttpReceiveResponse
\*   status the status code of the response
HttpOutcomes == [conn : [1..4 -> ConnectOutcomes], open : [1..2 -> BOOLEAN],
                 send : [1..2 -> BOOLEAN], recv : BOOLEAN, status : StatusCodes]

\* the outcomes a call of sendHttpPost or sendCompressedHttpPost can tell apart:
\* what no step of the call consults (the second connect() after a first that
\* succeeded, the retry after a first send that succeeded, the response of a
\* request that was not sent) is held at "ok", TRUE and 200
HttpEnvironments ==
    {e \in HttpOutcomes :
        LET connected1 == e.conn[1] = "ok" \/ e.conn[2] = "ok"
            connected2 == e.conn[3] = "ok" \/ e.conn[4] = "ok"
            retried    == connected1 /\ e.open[1] /\ ~e.send[1]
            sent       == /\ connected1 /\ e.open[1]
                          /\ (e.send[1] \/ (connected2 /\ e.open[2] /\ e.send[2]))
        IN  /\ e.conn[1] = "ok" => e.conn[2] = "ok"
            /\ e.conn[3] = "ok" => e.conn[4] = "ok"
            /\ ~connected1 => e.open[1]
            /\ ~(connected1 /\ e.open[1]) => e.send[1]
            /\ ~retried => e.conn[3] = "ok" /\ e.open[2] /\ e.send[2]
            /\ (retried /\ ~connected2) => e.open[2]
            /\ (retried /\ ~(connected2 /\ e.open[2])) => e.send[2]
            /\ ~sent => e.recv
            /\ ~(sent /\ e.recv) => e.status = 200}

\* the outcomes a call of GET or POST can tell apart: it connects, opens and
\* sends once
OneShotEnvironments ==
    {e \in HttpOutcomes :
        LET sent == e.conn[1] = "ok" /\ e.open[1] /\ e.send[1]
        IN  /\ \A i \in 2..4 : e.conn[i] = "ok"
            /\ e.open[2] /\ e.send[2]
            /\ e.conn[1] # "ok" => e.open[1]
            /\ ~(e.conn[1] = "ok" /\ e.open[1]) => e.send[1]
            /\ ~sent => e.recv
            /\ ~(sent /\ e.recv) => e.status = 200}

\* the persistent handles hSession and hConnect: TRUE when not NULL
NoConn == [hSession |-> FALSE, hConnect |-> FALSE]

\* HttpClient::connect; opened is the number of handles WinHttpOpen and
\* WinHttpConnect returned during the call
connect(c, o) ==
    LET session == IF c.hSession THEN 0 ELSE 1
    IN  IF c.hSession /\ c.hConnect THEN [c |-> c, ok |-> TRUE, opened |-> 0]
        ELSE IF ~c.hSession /\ o = "open_fail"
        THEN [c |-> c, ok |-> FALSE, opened |-> 0]
        ELSE IF ~c.hConnect /\ o = "connect_fail"
        THEN [c |-> [hSession |-> TRUE, hConnect |-> FALSE], ok |-> FALSE,
              opened |-> session]
        ELSE [c |-> [hSession |-> TRUE, hConnect |-> TRUE], ok |-> TRUE,
              opened |-> session + (IF c.hConnect THEN 0 ELSE 1)]

\* disconnect as it would be if it closed and cleared the session handle only
disconnectSession(c) == [hSession |-> FALSE, hConnect |-> c.hConnect]

\* HttpClient::disconnect
disconnect(c) == NoConn

\* HttpClient::ensureConnection: connect, and after a failure disconnect and
\* connect once more
ensureConnection(c, o1, o2) ==
    LET first == connect(c, o1)
    IN  IF first.ok THEN first
        ELSE LET second == connect(disconnect(first.c), o2)
             IN  [second EXCEPT !.opened = first.opened + @]

\* one WinHttpSendRequest: the request handed to it, the connection it was opened
\* on, and whether the call succeeded
Attempt(method, urlPath, headers, body, via, sent) ==
    [method |-> method, path |-> urlPath, headers |-> headers, body |-> body,
     via |-> via, sent |-> sent]

\* the bodies: a dumped event, a dumped array of events, its compressed bytes
Plain(events) == [enc |-> "json", events |-> events]
Compressed(events) == [enc |-> "zstd", events |-> events]
NoBody == [enc |-> "none", events |-> <<>>]
ResponseBody == "response body"

\* what one call of a request function did:
\*   attempts    the WinHttpSendRequest calls, in order
\*   reconnects  how often the "disconnect(); ensureConnection()" of the retry ran
\*   received    a response was received (WinHttpReceiveResponse succeeded)
\*   status      its status code, 0 when none was received
\*   ok          the bool a telemetry function returned
\*   body        the string GET or POST returned
\*   closed      the request handles given to WinHttpCloseHandle, in order: i for
\*               the handle of attempt i, 0 for a NULL handle
\*   opened      the number of persistent handles (session, connection) the
\*               call created
HttpCall(op, c, attempts, reconnects, received, status, ok, body, closed, opened) ==
    [op |-> op, c |-> c, attempts |-> attempts, reconnects |-> reconnects,
     received |-> received, status |-> status, ok |-> ok, body |-> body,
     closed |-> closed, opened |-> opened]

NoRequest == HttpCall("none", NoConn, <<>>, 0, FALSE, 0, FALSE, "", <<>>, 0)

\* the tail of sendCompressedHttpPost after the retry block: receive, query the
\* status, compare it
finishCompressed(c, attempts, reconnects, closed, opened, env) ==
    LET sent     == attempts # <<>> /\ attempts[Len(attempts)].sent
        received == sent /\ env.recv
    IN  HttpCall("sendCompressedHttpPost", c, attempts, reconnects, received,
                 IF received THEN env.status ELSE 0,
                 received /\ (env.status = 200 \/ env.status = 201), "", closed,
                 opened)

\* HttpClient::sendCompressedHttpPost on a client constructed with apiPath
sendCompressedHttpPost(c, apiPath, body, env) ==
    LET hdrs == {JsonHeader, ZstdHeader, AuthHeader}
        e1   == ensureConnection(c, env.conn[1], env.conn[2])
    IN  IF ~e1.ok
        THEN HttpCall("sendCompressedHttpPost", e1.c, <<>>, 0, FALSE, 0, FALSE, "", <<>>,
                      e1.opened)
        ELSE IF ~env.open[1]
        THEN HttpCall("sendCompressedHttpPost", disconnect(e1.c), <<>>, 0, FALSE, 0,
                      FALSE, "", <<>>, e1.opened)
        ELSE LET a1 == Attempt("POST", TelemetryPath, hdrs, body, "persistent",
                               env.send[1])
             IN  IF env.send[1]
                 THEN finishCompressed(e1.c, <<a1>>, 0, <<1>>, e1.opened, env)
                 ELSE LET e2 == ensureConnection(disconnect(e1.c), env.conn[3],
                                                 env.conn[4])
                          a2 == Attempt("POST", apiPath, hdrs, body, "persistent",
                                        env.send[2])
                      IN  IF e2.ok /\ env.open[2]
                          THEN finishCompressed(e2.c, <<a1, a2>>, 1, <<1, 2>>,
                                   e1.opened + e2.opened, env)
                          ELSE IF e2.ok
                          THEN finishCompressed(e2.c, <<a1>>, 1, <<1, 0>>,
                                   e1.opened + e2.opened, env)
                          ELSE finishCompressed(e2.c, <<a1>>, 1, <<1, 1>>,
                                   e1.opened + e2.opened, env)

\* the tail of sendHttpPost after the retry block
finishPlain(c, attempts, reconnects, closed, opened, env) ==
    LET sent     == attempts # <<>> /\ attempts[Len(attempts)].sent
        received == sent /\ env.recv
    IN  HttpCall("sendHttpPost", c, attempts, reconnects, received,
                 IF received THEN env.status ELSE 0,
                 received /\ env.status = 201, "", closed, opened)

\* HttpClient::sendHttpPost on a client constructed with apiPath
sendHttpPost(c, apiPath, body, env) ==
    LET hdrs == {JsonHeader, AuthHeader}
        e1   == ensureConnection(c, env.conn[1], env.conn[2])
    IN  IF ~e1.ok
        THEN HttpCall("sendHttpPost", e1.c, <<>>, 0, FALSE, 0, FALSE, "", <<>>,
                      e1.opened)
        ELSE IF ~env.open[1]
        THEN HttpCall("sendHttpPost", disconnect(e1.c), <<>>, 0, FALSE, 0, FALSE, "",
                      <<>>, e1.opened)
        ELSE LET a1 == Attempt("POST", apiPath, hdrs, body, "persistent", env.send[1])
             IN  IF env.send[1]
                 THEN finishPlain(e1.c, <<a1>>, 0, <<1>>, e1.opened, env)
                 ELSE LET e2 == ensureConnection(disconnect(e1.c), env.conn[3],
                                                 env.conn[4])
                          a2 == Attempt("POST", apiPath, hdrs, body, "persistent",
                                        env.send[2])
                      IN  IF e2.ok /\ env.open[2]
                          THEN finishPlain(e2.c, <<a1, a2>>, 1, <<1, 2>>,
                                   e1.opened + e2.opened, env)
                          ELSE IF e2.ok
                          THEN finishPlain(e2.c, <<a1>>, 1, <<1, 0>>,
                                   e1.opened + e2.opened, env)
                          ELSE finishPlain(e2.c, <<a1>>, 1, <<1, 1>>,
                                   e1.opened + e2.opened, env)

\* HttpClient::sendTelemetry: the dumped event through sendHttpPost
sendTelemetry(c, apiPath, event, env) ==
    sendHttpPost(c, apiPath, Plain(<<event>>), env)

\* HttpClient::sendTelemetryBatch: the dumped array compressed and sent by
\* sendCompressedHttpPost, or sent as it is by sendHttpPost when compressData fails
sendTelemetryBatch(c, apiPath, events, compressed, env) ==
    IF compressed
    THEN sendCompressedHttpPost(c, apiPath, Compressed(events), env)
    ELSE sendHttpPost(c, apiPath, Plain(events), env)

\* the endpoints GET and POST are called with, and what WinHttpCrackUrl makes of
\* them: the poll and result URLs of pollCommandsLoop, and a string that is no URL
PollEndpoint == "http://server:8000/api/v1/commands/poll/"
ResultEndpoint == "http://server:8000/api/v1/commands/result/c1/"
Endpoints == {PollEndpoint, ResultEndpoint, "server"}

WinHttpCrackUrl(endpoint) ==
    IF endpoint = PollEndpoint THEN [ok |-> TRUE, urlPath |-> "/api/v1/commands/poll/"]
    ELSE IF endpoint = ResultEndpoint
    THEN [ok |-> TRUE, urlPath |-> "/api/v1/commands/result/c1/"]
    ELSE [ok |-> FALSE, urlPath |-> ""]

\* the request GET and POST share: a session and a connection opened for this one
\* request, the request sent once, the handles closed; c, the persistent pair, is
\* neither used nor changed
oneShot(op, method, c, headers, endpoint, body, env) ==
    LET url == WinHttpCrackUrl(endpoint)
    IN  IF ~url.ok \/ env.conn[1] # "ok" \/ ~env.open[1]
        THEN HttpCall(op, c, <<>>, 0, FALSE, 0, FALSE, "", <<>>, 0)
        ELSE LET a1       == Attempt(method, url.urlPath, headers, body, "temporary",
                                     env.send[1])
                 received == env.send[1] /\ env.recv
             IN  HttpCall(op, c, <<a1>>, 0, received,
                          IF received THEN env.status ELSE 0, FALSE,
                          IF received THEN ResponseBody ELSE "", <<1>>, 0)

\* HttpClient::GET
GET(c, hdrs, endpoint, env) ==
    oneShot("GET", "GET", c, headersOf(hdrs), endpoint, NoBody, env)

\* HttpClient::POST
POST(c, hdrs, endpoint, data, env) ==
    oneShot("POST", "POST", c, {JsonHeader} \cup headersOf(hdrs), endpoint, data, env)

\* the client before its first call, constructed with one of the api paths
HttpIdle ==
    /\ hSession = FALSE
    /\ hConnect = FALSE
    /\ customHeaders = <<>>
    /\ httpLast = NoRequest

InitHttp ==
    /\ HttpIdle
    /\ path \in ApiPaths

Handles == [hSession |-> hSession, hConnect |-> hConnect]

\* the end of a call: the handles it leaves and its record
Called(call) ==
    /\ hSession' = call.c.hSession
    /\ hConnect' = call.c.hConnect
    /\ httpLast' = call

\* addHeader(key, value)
AddHeader ==
    /\ Len(customHeaders) < MaxHeaders
    /\ \E h \in HeaderPool : customHeaders' = Append(customHeaders, h)
    /\ UNCHANGED <<hSession, hConnect, path, httpLast>>

\* GET(endpoint)
Get ==
    /\ \E endpoint \in Endpoints, env \in OneShotEnvironments :
           Called(GET(Handles, customHeaders, endpoint, env))
    /\ UNCHANGED <<customHeaders, path>>

\* POST(endpoint, data)
Post ==
    /\ \E endpoint \in Endpoints, env \in OneShotEnvironments :
           Called(POST(Handles, customHeaders, endpoint, Plain(<<1>>), env))
    /\ UNCHANGED <<customHeaders, path>>

\* sendTelemetry(eventData)
SendTelemetry ==
    /\ \E env \in HttpEnvironments : Called(sendTelemetry(Handles, path, 1, env))
    /\ UNCHANGED <<customHeaders, path>>

\* sendTelemetryBatch(events)
SendTelemetryBatch ==
    /\ \E compressed \in BOOLEAN, env \in HttpEnvironments :
           Called(sendTelemetryBatch(Handles, path, <<1, 2>>, compressed, env))
    /\ UNCHANGED <<customHeaders, path>>

----------------------------------------------------------------------------
(* Telemetry batching: ProcessEvent *)

\* static const size_t BATCH_SIZE
BATCH_SIZE == 100

\* the buffering of ProcessEvent as it would be if only a delivered batch were
\* dropped from the buffer
pushEventKeepOnFailure(buffer, event, flushOk) ==
    LET pushed == Append(buffer, event)
    IN  IF Len(pushed) >= BATCH_SIZE
        THEN [buffer |-> IF flushOk THEN <<>> ELSE pushed, flushed |-> TRUE,
              batch |-> pushed]
        ELSE [buffer |-> pushed, flushed |-> FALSE, batch |-> <<>>]

\* the buffering of ProcessEvent: push_back, and at BATCH_SIZE one
\* sendTelemetryBatch(eventBuffer) followed by clear() in either branch; flushOk
\* is what sendTelemetryBatch returns when it is called
pushEvent(buffer, event, flushOk) ==
    LET pushed == Append(buffer, event)
    IN  IF Len(pushed) >= BATCH_SIZE
        THEN [buffer |-> <<>>, flushed |-> TRUE, batch |-> pushed]
        ELSE [buffer |-> pushed, flushed |-> FALSE, batch |-> <<>>]

\* the record of one push: the buffer length it found, whether it called
\* sendTelemetryBatch, with which events, and what the call returned
NoPush == [lenBefore |-> 0, flushed |-> FALSE, batch |-> <<>>, ok |-> FALSE,
           flushes |-> 0]

TelIdle ==
    /\ eventBuffer = <<>>
    /\ telPushed = 0
    /\ telLast = NoPush
    /\ telBatches = <<>>
    /\ telDropped = 0

\* one delivered event: the conversions of ProcessEvent (EventToEventXml,
\* EventXmlToEventJson, json::parse, sysmonEventToDjangoFormat) either yield a
\* record, which is pushed, or fail or yield an empty one, and ProcessEvent goes to
\* cleanup before the buffer is touched; pushed events are numbered in the order
\* of delivery
ProcessEvent ==
    \E converted \in BOOLEAN :
        IF ~converted
        THEN /\ telDropped < MaxDropped
             /\ telDropped' = telDropped + 1
             /\ UNCHANGED <<eventBuffer, telPushed, telLast, telBatches, httpVars>>
        ELSE /\ telPushed < MaxEvents
             /\ LET event == telPushed + 1
                IN  IF Len(eventBuffer) + 1 >= BATCH_SIZE
                    THEN \E compressed \in BOOLEAN, env \in HttpEnvironments :
                             LET call == sendTelemetryBatch(Handles, path,
                                                            Append(eventBuffer, event),
                                                            compressed, env)
                                 push == pushEvent(eventBuffer, event, call.ok)
                             IN  /\ eventBuffer' = push.buffer
                                 /\ telLast' = [lenBefore |-> Len(eventBuffer),
                                                flushed |-> push.flushed,
                                                batch |-> push.batch, ok |-> call.ok,
                                                flushes |-> telLast.flushes + 1]
                                 /\ telBatches' = Append(telBatches, push.batch)
                                 /\ Called(call)
                    ELSE LET push == pushEvent(eventBuffer, event, FALSE)
                         IN  /\ eventBuffer' = push.buffer
                             /\ telLast' = [lenBefore |-> Len(eventBuffer),
                                            flushed |-> push.flushed,
                                            batch |-> push.batch, ok |-> FALSE,
                                            flushes |-> telLast.flushes]
                             /\ IF push.flushed
                                THEN telBatches' = Append(telBatches, push.batch)
                                ELSE telBatches' = telBatches
                             /\ UNCHANGED <<hSession, hConnect, httpLast>>
             /\ telPushed' = telPushed + 1
             /\ UNCHANGED <<customHeaders, path, telDropped>>

----------------------------------------------------------------------------
(* The control channel: the server isolate_host allows, the server polled *)

\* config.json where isolate_host and pollCommandsLoop read it: the http_server
\* and http_port members, each absent or of the type its getter converts to
IsolationConfigs == [http_server : {"absent", "string"}, http_port : {0, 8000, 8443}]

\* ConfigReader::getHttpPort: the member, 8000 when there is none (0 stands for
\* the absent member)
getHttpPort(cfg) == IF cfg.http_port = 0 THEN 8000 ELSE cfg.http_port

\* the isolate_host branch of executeResponseCommand: the arguments it calls
\* isolateHost with
isolateArguments(cfg) ==
    LET serverIp == getHttpServer([http_server |-> cfg.http_server,
                                   reverse_shell |-> "absent"]).v
    IN  [ip |-> IF serverIp = "localhost" THEN "127.0.0.1" ELSE serverIp,
         port |-> 8000]

\* step 3 of isolateHost: remoteip and remoteport of the EDR_ALLOW_SERVER rule
allowServerRule(serverIp, serverPort) == [remoteip |-> serverIp, remoteport |-> serverPort]

\* pollCommandsLoop: the server and port of serverUrl
pollServer(cfg) ==
    [host |-> getHttpServer([http_server |-> cfg.http_server,
                             reverse_shell |-> "absent"]).v,
     port |-> getHttpPort(cfg)]

NoScope == [remoteip |-> "", remoteport |-> 0]
NoServer == [host |-> "", port |-> 0]

IsoIdle ==
    /\ configFile = [http_server |-> "absent", http_port |-> 0]
    /\ allowScope = NoScope
    /\ serverUrl = NoServer

InitIso ==
    /\ configFile \in IsolationConfigs
    /\ allowScope = NoScope
    /\ serverUrl = NoServer

\* the polling thread starts and builds serverUrl
PollServerUrl ==
    /\ serverUrl = NoServer
    /\ serverUrl' = pollServer(configFile)
    /\ UNCHANGED <<configFile, allowScope, hostVars>>

\* a polled isolate_host command: executeResponseCommand installs the rules, the
\* EDR_ALLOW_SERVER rule with the scope of its arguments
IsolateCommand ==
    /\ serverUrl # NoServer
    /\ \A r \in RuleNames : rules[r] < MaxRules
    /\ \E oks \in NetshOutcomes :
         LET env  == [DefaultEnv EXCEPT !.oks = oks,
                                        !.cfg.http_server = configFile.http_server]
             r    == executeResponseCommand("isolate_host", NoParameters, env,
                                            Host(rules, fwLast, procs, killLast, shells))
             args == isolateArguments(configFile)
         IN  /\ rules' = r.host.rules
             /\ fwLast' = r.host.fwLast
             /\ allowScope' = IF r.host.rules[ALLOW_SERVER] > rules[ALLOW_SERVER]
                              THEN allowServerRule(args.ip, args.port)
                              ELSE allowScope
    /\ UNCHANGED <<procs, killLast, shells, configFile, serverUrl>>

\* a polled deisolate_host command
DeisolateCommand ==
    /\ serverUrl # NoServer
    /\ \E oks \in NetshOutcomes :
         LET env == [DefaultEnv EXCEPT !.oks = oks]
             r   == executeResponseCommand("deisolate_host", NoParameters, env,
                                           Host(rules, fwLast, procs, killLast, shells))
         IN  /\ rules' = r.host.rules
             /\ fwLast' = r.host.fwLast
             /\ allowScope' = IF r.host.rules[ALLOW_SERVER] = 0 THEN NoScope
                              ELSE allowScope
    /\ UNCHANGED <<procs, killLast, shells, configFile, serverUrl>>

\* the clients and the configuration while another subsystem runs
ExtIdle ==
    /\ HttpIdle
    /\ path = TelemetryPath
    /\ TelIdle
    /\ IsoIdle

----------------------------------------------------------------------------
(* Specifications *)

InitSpecFw ==
    /\ ExtIdle
    /\ InitFw
    /\ procs = [p \in {0} |-> 0]
    /\ killLast = KillNone
    /\ shells = 0
    /\ CmdIdle
    /\ PollIdle
    /\ WsIdle

NextFw ==
    \/ IsolateHost /\ UNCHANGED <<procs, killLast, shells, cmdVars, pollVars, wsVars, extVars>>
    \/ DeisolateHost /\ UNCHANGED <<procs, killLast, shells, cmdVars, pollVars, wsVars, extVars>>

SpecFw == InitSpecFw /\ [][NextFw]_vars

InitSpecKill ==
    /\ ExtIdle
    /\ InitKill
    /\ InitFw
    /\ shells = 0
    /\ CmdIdle
    /\ PollIdle
    /\ WsIdle

NextKill ==
    KillProcessTree /\ UNCHANGED <<rules, fwLast, shells, cmdVars, pollVars, wsVars, extVars>>

SpecKill == InitSpecKill /\ [][NextKill]_vars

InitSpecCmd ==
    /\ ExtIdle
    /\ InitCmd
    /\ InitFw
    /\ procs = ChainProcs
    /\ killLast = KillNone
    /\ shells = 0
    /\ PollIdle
    /\ WsIdle

NextCmd ==
    ExecuteCommand /\ UNCHANGED <<pollVars, wsVars, extVars>>

SpecCmd == InitSpecCmd /\ [][NextCmd]_vars

InitSpecPoll ==
    /\ ExtIdle
    /\ PollIdle
    /\ WsIdle
    /\ InitFw
    /\ procs = ChainProcs
    /\ killLast = KillNone
    /\ shells = 0
    /\ CmdIdle
    /\ WsIdle

NextPoll ==
    \/ StartCommandPolling /\ UNCHANGED <<hostVars, cmdVars, wsVars, extVars>>
    \/ StartThread /\ UNCHANGED <<hostVars, cmdVars, wsVars, extVars>>
    \/ StopCommandPolling /\ UNCHANGED <<hostVars, cmdVars, wsVars, extVars>>
    \/ StopNotify /\ UNCHANGED <<hostVars, cmdVars, wsVars, extVars>>
    \/ StopReturn /\ UNCHANGED <<hostVars, cmdVars, wsVars, extVars>>
    \/ \E t \in PollThreads :
         \/ PollTop(t) /\ UNCHANGED <<hostVars, cmdVars, wsVars, extVars>>
         \/ PollGet(t) /\ UNCHANGED <<hostVars, cmdVars, wsVars, extVars>>
         \/ PollExecute(t) /\ UNCHANGED <<cmdVars, wsVars, extVars>>
         \/ PollPost(t) /\ UNCHANGED <<hostVars, cmdVars, wsVars, extVars>>
         \/ PollLock(t) /\ UNCHANGED <<hostVars, cmdVars, wsVars, extVars>>
         \/ PollPred(t) /\ UNCHANGED <<hostVars, cmdVars, wsVars, extVars>>
         \/ PollWait(t) /\ UNCHANGED <<hostVars, cmdVars, wsVars, extVars>>
         \/ PollTimeout(t) /\ UNCHANGED <<hostVars, cmdVars, wsVars, extVars>>
         \/ PollRelock(t) /\ UNCHANGED <<hostVars, cmdVars, wsVars, extVars>>

SpecPoll == InitSpecPoll /\ [][NextPoll]_vars

\* one polling thread: startCommandPolling once, stopCommandPolling at any time;
\* the thread is scheduled and its 5 second wait elapses
NoPollThread == \A t \in PollThreads : pollPc[t] = "none"

NextPollOne ==
    \/ (NoPollThread /\ StartCommandPolling)
           /\ UNCHANGED <<hostVars, cmdVars, wsVars, extVars>>
    \/ StartThread /\ UNCHANGED <<hostVars, cmdVars, wsVars, extVars>>
    \/ StopCommandPolling /\ UNCHANGED <<hostVars, cmdVars, wsVars, extVars>>
    \/ StopNotify /\ UNCHANGED <<hostVars, cmdVars, wsVars, extVars>>
    \/ StopReturn /\ UNCHANGED <<hostVars, cmdVars, wsVars, extVars>>
    \/ \E t \in PollThreads :
         \/ PollTop(t) /\ UNCHANGED <<hostVars, cmdVars, wsVars, extVars>>
         \/ PollGet(t) /\ UNCHANGED <<hostVars, cmdVars, wsVars, extVars>>
         \/ PollExecute(t) /\ UNCHANGED <<cmdVars, wsVars, extVars>>
         \/ PollPost(t) /\ UNCHANGED <<hostVars, cmdVars, wsVars, extVars>>
         \/ PollLock(t) /\ UNCHANGED <<hostVars, cmdVars, wsVars, extVars>>
         \/ PollPred(t) /\ UNCHANGED <<hostVars, cmdVars, wsVars, extVars>>
         \/ PollWait(t) /\ UNCHANGED <<hostVars, cmdVars, wsVars, extVars>>
         \/ PollTimeout(t) /\ UNCHANGED <<hostVars, cmdVars, wsVars, extVars>>
         \/ PollRelock(t) /\ UNCHANGED <<hostVars, cmdVars, wsVars, extVars>>

SpecPollOne ==
    /\ InitSpecPoll
    /\ [][NextPollOne]_vars
    /\ \A t \in PollThreads :
         /\ WF_vars(PollTop(t) /\ UNCHANGED <<hostVars, cmdVars, wsVars, extVars>>)
         /\ WF_vars(PollLock(t) /\ UNCHANGED <<hostVars, cmdVars, wsVars, extVars>>)
         /\ WF_vars(PollPred(t) /\ UNCHANGED <<hostVars, cmdVars, wsVars, extVars>>)
         /\ WF_vars(PollWait(t) /\ UNCHANGED <<hostVars, cmdVars, wsVars, extVars>>)
         /\ WF_vars(PollTimeout(t) /\ UNCHANGED <<hostVars, cmdVars, wsVars, extVars>>)
         /\ WF_vars(PollRelock(t) /\ UNCHANGED <<hostVars, cmdVars, wsVars, extVars>>)

InitSpecWs ==
    /\ ExtIdle
    /\ WsIdle
    /\ InitFw
    /\ procs = ChainProcs
    /\ killLast = KillNone
    /\ shells = 0
    /\ CmdIdle
    /\ PollIdle

NextWs ==
    \/ Connect /\ UNCHANGED <<hostVars, cmdVars, pollVars, extVars>>
    \/ SendCheck /\ UNCHANGED <<hostVars, cmdVars, pollVars, extVars>>
    \/ SendPost /\ UNCHANGED <<hostVars, cmdVars, pollVars, extVars>>
    \/ CloseBegin /\ UNCHANGED <<hostVars, cmdVars, pollVars, extVars>>
    \/ CloseCancel /\ UNCHANGED <<hostVars, cmdVars, pollVars, extVars>>
    \/ CloseCheck /\ UNCHANGED <<hostVars, cmdVars, pollVars, extVars>>
    \/ CloseJoinLocked /\ UNCHANGED <<hostVars, cmdVars, pollVars, extVars>>
    \/ ClosePost /\ UNCHANGED <<hostVars, cmdVars, pollVars, extVars>>
    \/ CloseStop /\ UNCHANGED <<hostVars, cmdVars, pollVars, extVars>>
    \/ CloseJoin /\ UNCHANGED <<hostVars, cmdVars, pollVars, extVars>>
    \/ IoExit /\ UNCHANGED <<hostVars, cmdVars, pollVars, extVars>>
    \/ OnResolve /\ UNCHANGED <<hostVars, cmdVars, pollVars, extVars>>
    \/ OnConnect /\ UNCHANGED <<hostVars, cmdVars, pollVars, extVars>>
    \/ OnHandshake /\ UNCHANGED <<hostVars, cmdVars, pollVars, extVars>>
    \/ HandshakeOpen /\ UNCHANGED <<hostVars, cmdVars, pollVars, extVars>>
    \/ OnReadError /\ UNCHANGED <<hostVars, cmdVars, pollVars, extVars>>
    \/ ReadMarkClosed /\ UNCHANGED <<hostVars, cmdVars, pollVars, extVars>>
    \/ OnReadMessage /\ UNCHANGED <<cmdVars, pollVars, extVars>>
    \/ SendFromRead /\ UNCHANGED <<hostVars, cmdVars, pollVars, extVars>>
    \/ ScheduleReconnect /\ UNCHANGED <<hostVars, cmdVars, pollVars, extVars>>
    \/ TimerExpire /\ UNCHANGED <<hostVars, cmdVars, pollVars, extVars>>
    \/ OnTimer /\ UNCHANGED <<hostVars, cmdVars, pollVars, extVars>>
    \/ DoReconnect /\ UNCHANGED <<hostVars, cmdVars, pollVars, extVars>>
    \/ RunWrite /\ UNCHANGED <<hostVars, cmdVars, pollVars, extVars>>
    \/ RunClose /\ UNCHANGED <<hostVars, cmdVars, pollVars, extVars>>

SpecWs == InitSpecWs /\ [][NextWs]_vars

\* The agent's two command channels and their shutdown calls, as EdrAgent.cpp
\* configures them: with polling disabled only the push channel runs, and without
\* a WebSocket configuration only the polling loop runs.
InitSpecStop ==
    /\ ExtIdle
    /\ WsIdle
    /\ PollIdle
    /\ InitFw
    /\ procs = ChainProcs
    /\ killLast = KillNone
    /\ shells = 0
    /\ CmdIdle

NextStop ==
    \/ PollIdle /\ NextWs
    \/ WsIdle /\ NextPoll

SpecStop == InitSpecStop /\ [][NextStop]_vars

\* the request functions of one HttpClient, called in any order
InitSpecHttp ==
    /\ InitHttp
    /\ TelIdle
    /\ IsoIdle
    /\ InitFw
    /\ procs = ChainProcs
    /\ killLast = KillNone
    /\ shells = 0
    /\ CmdIdle
    /\ PollIdle
    /\ WsIdle

NextHttp ==
    \/ AddHeader /\ UNCHANGED <<hostVars, cmdVars, pollVars, wsVars, telVars, isoVars>>
    \/ Get /\ UNCHANGED <<hostVars, cmdVars, pollVars, wsVars, telVars, isoVars>>
    \/ Post /\ UNCHANGED <<hostVars, cmdVars, pollVars, wsVars, telVars, isoVars>>
    \/ SendTelemetry /\ UNCHANGED <<hostVars, cmdVars, pollVars, wsVars, telVars, isoVars>>
    \/ SendTelemetryBatch /\ UNCHANGED <<hostVars, cmdVars, pollVars, wsVars, telVars, isoVars>>

SpecHttp == InitSpecHttp /\ [][NextHttp]_vars

\* the event subscription delivering events to ProcessEvent, which flushes
\* through the telemetry client
InitSpecTel ==
    /\ InitHttp
    /\ TelIdle
    /\ IsoIdle
    /\ InitFw
    /\ procs = ChainProcs
    /\ killLast = KillNone
    /\ shells = 0
    /\ CmdIdle
    /\ PollIdle
    /\ WsIdle

NextTel ==
    ProcessEvent /\ UNCHANGED <<hostVars, cmdVars, pollVars, wsVars, isoVars>>

SpecTel == InitSpecTel /\ [][NextTel]_vars

\* isolate_host and deisolate_host commands fetched by a polling loop, under each
\* config.json
InitSpecIso ==
    /\ InitIso
    /\ HttpIdle
    /\ path = TelemetryPath
    /\ TelIdle
    /\ InitFw
    /\ procs = ChainProcs
    /\ killLast = KillNone
    /\ shells = 0
    /\ CmdIdle
    /\ PollIdle
    /\ WsIdle

NextIso ==
    \/ PollServerUrl /\ UNCHANGED <<cmdVars, pollVars, wsVars, httpVars, telVars>>
    \/ IsolateCommand /\ UNCHANGED <<cmdVars, pollVars, wsVars, httpVars, telVars>>
    \/ DeisolateCommand /\ UNCHANGED <<cmdVars, pollVars, wsVars, httpVars, telVars>>

SpecIso == InitSpecIso /\ [][NextIso]_vars

\* the push channel after one connect() and without close(), as EdrAgent.cpp
\* runs it: the calling thread sends, m_io_thread runs the handlers
InitSpecWsOne ==
    /\ ExtIdle
    /\ WsIdle
    /\ InitFw
    /\ procs = ChainProcs
    /\ killLast = KillNone
    /\ shells = 0
    /\ CmdIdle
    /\ PollIdle

NextWsOne ==
    \/ (ioPc = "none" /\ Connect) /\ UNCHANGED <<hostVars, cmdVars, pollVars, extVars>>
    \/ SendCheck /\ UNCHANGED <<hostVars, cmdVars, pollVars, extVars>>
    \/ SendPost /\ UNCHANGED <<hostVars, cmdVars, pollVars, extVars>>
    \/ OnResolve /\ UNCHANGED <<hostVars, cmdVars, pollVars, extVars>>
    \/ OnConnect /\ UNCHANGED <<hostVars, cmdVars, pollVars, extVars>>
    \/ OnHandshake /\ UNCHANGED <<hostVars, cmdVars, pollVars, extVars>>
    \/ HandshakeOpen /\ UNCHANGED <<hostVars, cmdVars, pollVars, extVars>>
    \/ OnReadError /\ UNCHANGED <<hostVars, cmdVars, pollVars, extVars>>
    \/ OnReadMessage /\ UNCHANGED <<cmdVars, pollVars, extVars>>
    \/ SendFromRead /\ UNCHANGED <<hostVars, cmdVars, pollVars, extVars>>
    \/ RunWrite /\ UNCHANGED <<hostVars, cmdVars, pollVars, extVars>>
    \/ ReadMarkClosed /\ UNCHANGED <<hostVars, cmdVars, pollVars, extVars>>
    \/ ScheduleReconnect /\ UNCHANGED <<hostVars, cmdVars, pollVars, extVars>>
    \/ TimerExpire /\ UNCHANGED <<hostVars, cmdVars, pollVars, extVars>>
    \/ OnTimer /\ UNCHANGED <<hostVars, cmdVars, pollVars, extVars>>
    \/ DoReconnect /\ UNCHANGED <<hostVars, cmdVars, pollVars, extVars>>

\* m_ioc.run() invokes a handler that is ready, and an armed timer expires
SpecWsOne ==
    /\ InitSpecWsOne
    /\ [][NextWsOne]_vars
    /\ WF_vars(ReadMarkClosed /\ UNCHANGED <<hostVars, cmdVars, pollVars, extVars>>)
    /\ WF_vars(ScheduleReconnect /\ UNCHANGED <<hostVars, cmdVars, pollVars, extVars>>)
    /\ WF_vars(TimerExpire /\ UNCHANGED <<hostVars, cmdVars, pollVars, extVars>>)
    /\ WF_vars(OnTimer /\ UNCHANGED <<hostVars, cmdVars, pollVars, extVars>>)
    /\ WF_vars(DoReconnect /\ UNCHANGED <<hostVars, cmdVars, pollVars, extVars>>)

----------------------------------------------------------------------------
(* Claims about the response-action executor *)

\* C1: after any sequence of isolateHost and deisolateHost calls in which any
\* firewall step may fail, the block-all-outbound rule is never installed while
\* the allow-control-channel rule is absent.
C1_NeverBlockedWithoutControlChannel ==
    ~(rules[BLOCK_ALL] > 0 /\ rules[ALLOW_SERVER] = 0)

\* the set of pids below pid in table P, found by walking the parent-of relation
Descendants(pid, P) == Reach({pid}, P) \ {pid}

\* C8: killProcessTree(pid) returns success only if the root and every one of its
\* live descendants have been terminated.
C8_SuccessMeansWholeTreeTerminated ==
    (killLast.op = "kill" /\ ~killLast.overflow /\ killLast.ret)
        => \A p \in ({killLast.pid} \cup Descendants(killLast.pid, killLast.before))
                        \cap DOMAIN killLast.before :
               p \notin DOMAIN procs

\* C9: killProcessTree returns failure whenever the root cannot be opened, the
\* terminate call fails or the root has not exited when the 2-second wait ends;
\* and the root is attempted only after every child's subtree has been attempted
\* (post-order): each attempted process comes after all children its snapshot listed.
C9_RootFailureAndPostOrder ==
    (killLast.op = "kill" /\ ~killLast.overflow)
        => LET log == killLast.log
               n   == Len(log)
           IN  /\ n >= 1
               /\ log[n].pid = killLast.pid
               /\ log[n].outcome # "ok" => ~killLast.ret
               /\ killLast.ret => killLast.pid \notin DOMAIN procs
               /\ (killLast.pid \notin DOMAIN killLast.before) => ~killLast.ret
               /\ \A i \in 1..n : \A c \in log[i].kids :
                      \E j \in 1..(i - 1) : log[j].pid = c

\* C9 witness: a root with a child and a grandchild whose terminate call was issued
\* but which had not exited when the wait ended; the call reported failure after
\* attempting grandchild, child and root in that order.
C9_Witness ==
    /\ killLast.op = "kill" /\ ~killLast.overflow
    /\ Len(killLast.log) = 3
    /\ killLast.log[3].outcome = "wait_timeout"
    /\ killLast.log[2].pid \in killLast.log[3].kids
    /\ killLast.log[1].pid \in killLast.log[2].kids
    /\ ~killLast.ret

\* C10: isolateHost installs its rules in the order block-all-outbound,
\* allow-IDE-ports, allow-control-channel, allow-DNS; at the first failing step it
\* returns failure, attempts no later step and leaves the rules of the earlier
\* steps installed; it returns success only when all four steps succeeded.
C10_IsolateOrderFailFastNoRollback ==
    fwLast.op = "isolate"
        => LET a     == fwLast.attempts
               n     == Len(a)
               order == <<"EDR_BLOCK_ALL", "EDR_ALLOW_ANTIGRAVITY",
                          "EDR_ALLOW_SERVER", "EDR_ALLOW_DNS">>
           IN  /\ n \in 1..4
               /\ \A i \in 1..n : a[i].rule = order[i] /\ a[i].ok = fwLast.oks[i]
               /\ \A i \in 1..(n - 1) : a[i].ok
               /\ n < 4 => ~a[n].ok
               /\ fwLast.result <=> (n = 4 /\ a[4].ok)
               /\ \A r \in RuleNames :
                      rules[r] = fwLast.before[r]
                                 + (IF \E i \in 1..n : a[i].rule = r /\ a[i].ok
                                    THEN 1 ELSE 0)

\* C10 witness: the third step failed after two rules were installed; the call
\* reported failure, the fourth step was not attempted and both rules remain.
C10_Witness ==
    /\ fwLast.op = "isolate"
    /\ Len(fwLast.attempts) = 3
    /\ ~fwLast.result
    /\ fwLast.oks[4]
    /\ rules[BLOCK_ALL] = fwLast.before[BLOCK_ALL] + 1
    /\ rules[ALLOW_ANTIGRAVITY] = fwLast.before[ALLOW_ANTIGRAVITY] + 1
    /\ rules[ALLOW_DNS] = fwLast.before[ALLOW_DNS]

\* C11: deisolateHost attempts the removal of each of the four rules that
\* isolateHost can create on every call, whichever earlier removals failed, and
\* returns success exactly when all four removals succeeded.
C11_DeisolateAttemptsAllAndAggregates ==
    fwLast.op = "deisolate"
        => LET a == fwLast.attempts
           IN  /\ Len(a) = 4
               /\ {a[i].rule : i \in 1..4} =
                      {"EDR_BLOCK_ALL", "EDR_ALLOW_ANTIGRAVITY",
                       "EDR_ALLOW_SERVER", "EDR_ALLOW_DNS"}
               /\ \A i \in 1..4 : a[i].ok = fwLast.oks[i]
               /\ fwLast.result <=> \A i \in 1..4 : a[i].ok
               /\ \A i \in 1..4 :
                      rules[a[i].rule] = IF a[i].ok THEN 0 ELSE fwLast.before[a[i].rule]

\* C11 witness: the first removal failed, the later ones were still run and
\* removed installed rules, and the call reported failure.
C11_Witness ==
    /\ fwLast.op = "deisolate"
    /\ ~fwLast.oks[1]
    /\ fwLast.oks[2] /\ fwLast.oks[3] /\ fwLast.oks[4]
    /\ ~fwLast.result
    /\ fwLast.before[ALLOW_SERVER] > 0
    /\ rules[ALLOW_SERVER] = 0
    /\ rules[BLOCK_ALL] = fwLast.before[BLOCK_ALL]

----------------------------------------------------------------------------
(* Claims about the command dispatcher *)

\* the host is as it was before the call: no rule, process or shell was touched
\* and no netsh or terminate attempt was made
HostUntouched ==
    /\ rules = [r \in RuleNames |-> 0]
    /\ fwLast.op = "none"
    /\ procs = ChainProcs
    /\ killLast.op = "none"
    /\ shells = 0

\* the command string has no string "type" member to dispatch on
Malformed(c) == ~c.valid \/ c.top # "object" \/ c.type.k # "string"

\* C5: for every command string that is not valid JSON, or is valid JSON of any
\* shape without a string "type" member, executeCommand returns the fixed
\* invalid-JSON-or-missing-type error envelope, performs no action and raises nothing.
C5_MalformedYieldsFixedError ==
    (cmdPc = "done" /\ Malformed(cmd))
        => /\ cmdOutcome = "returned"
           /\ cmdResp = "{type:error,status:invalid JSON or missing 'type' field}"
           /\ HostUntouched

\* C5 witness: a JSON object without a "type" member (but with parameters naming a
\* pid) has been executed.
C5_Witness ==
    /\ cmdPc = "done"
    /\ cmd.valid /\ cmd.top = "object" /\ cmd.type.k = "absent"
    /\ cmd.parameters.k = "object" /\ cmd.parameters.pid.k = "number"
    /\ cmdResp = RespInvalid

\* C6: for every command string that parses to a JSON object with a string "type",
\* whatever the presence and JSON types of its other members, executeCommand
\* returns a response envelope and never propagates an exception to its caller.
C6_WellTypedNeverThrows ==
    (cmdPc = "done" /\ ~Malformed(cmd))
        => /\ cmdOutcome # "exception"
           /\ cmdOutcome = "returned" => cmdResp # ""

\* the command vocabulary of the specification
Vocabulary == {"ping", "auth", "system_info", "echo", "event",
               "kill_process", "isolate_host", "deisolate_host"}

\* C7: every command whose "type" is not one of the eight types of the vocabulary
\* yields the generic unknown-command error envelope and causes no side effect on
\* the host.
C7_FixedVocabulary ==
    (cmdPc = "done" /\ ~Malformed(cmd) /\ cmd.type.s \notin Vocabulary)
        => /\ cmdOutcome = "returned"
           /\ cmdResp = "{type:error,status:unknown command}"
           /\ HostUntouched

\* the commands whose handler returns the empty response: the auth
\* acknowledgment, and echo and event with a string "message"
NoOpCommand(c) ==
    /\ ~Malformed(c)
    /\ c.message.k = "string"
    /\ \/ c.type.s = "auth" /\ c.message.s = "Authentication successful"
       \/ c.type.s \in {"echo", "event"}

\* C20: for the auth acknowledgment and for echo and event with a string
\* "message", executeCommand returns the empty string, so that a transport which
\* sends back only non-empty responses sends nothing.
C20_NoOpResponseIsEmpty ==
    (cmdPc = "done" /\ NoOpCommand(cmd))
        => /\ cmdOutcome = "returned"
           /\ cmdResp = ""

\* C21: the auth handshake goes Unauthenticated -> InfoSent -> Authenticated: the
\* first auth command of a connection is answered with the agent information
\* when it is the request "Authentication required", and with an error envelope
\* when it is the acknowledgment "Authentication successful" or any other message.
C21_AuthAckBeforeRequestIsError ==
    (cmdPc = "done" /\ ~Malformed(cmd) /\ cmd.type.s = "auth" /\ cmd.message.k = "string")
        => /\ cmdOutcome = "returned"
           /\ IF cmd.message.s = "Authentication required"
              THEN cmdResp = RespAuthInfo
              ELSE cmdResp = "{type:error,status:invalid authentication message}"

----------------------------------------------------------------------------
(* Claims about the polling loop *)

\* C3: if stopCommandPolling is invoked while the polling loop is in, or is about
\* to enter, its between-cycle sleep, the loop wakes at once: no polling thread is
\* left blocked in the wait, with the flag cleared and the notification already
\* issued, so that only the 5-second timeout can end its sleep.
C3_StopWakesSleepingLoop ==
    \A t \in PollThreads :
        ~(pollPc[t] = "wait" /\ ~pollingActive /\ ctlPc = "idle")

\* C23: in a polling cycle whose GET returned a command envelope carrying
\* command_id the command is executed exactly once and then exactly one result
\* POST is issued, to the path of that command_id; in a cycle whose GET returned
\* an empty body or the empty object nothing is executed and nothing is posted.
C23_OneExecutionOnePostPerCommand ==
    \A t \in PollThreads :
        LET y == pollCycle[t]
        IN  /\ y.execs <= 1
            /\ y.posts <= y.execs
            /\ y.fetched \in {"none", "empty"} => y.execs = 0 /\ y.posts = 0
            /\ (pollPc[t] = "lock" /\ y.fetched = "command")
                   => y.execs = 1 /\ y.posts = 1 /\ y.postedId = y.id

\* C23 witness: a polled kill_process command has been executed once and its
\* result posted once, and the cycle is about to sleep.
C23_Witness ==
    \E t \in PollThreads :
        /\ pollPc[t] = "lock"
        /\ pollCycle[t].fetched = "command"
        /\ pollCycle[t].type = "kill_process"
        /\ pollCycle[t].posts = 1
        /\ pollCycle[t].postedId = "c1"
        /\ killLast.op = "kill"

\* C24: the result the polling loop posts for a polled command equals the
\* response envelope executeCommand returns for a command of the same type and
\* parameters.
C24_PolledCommandGoesThroughDispatcher ==
    \A t \in PollThreads :
        pollCycle[t].posts = 1 => pollCycle[t].result = pollCycle[t].dispatched

----------------------------------------------------------------------------
(* Claims about the push channel *)

\* C2: close() on the push channel always returns: there is no reachable state in
\* which close() waits in the join for the background task while the task waits
\* for the state mutex that close() holds.
C2_CloseNeverDeadlocks ==
    ~(apiPc = "close_join_locked" /\ m_mutex = "api" /\ ioPc \in IoLockPoints)

\* C4: a message received on the push channel whose "type" is "command" is routed
\* by the dispatcher to the executor or query handler the command names, not to
\* the unknown-command fallback.
C4_PushedCommandIsExecuted ==
    (wsDispatch.executed /\ wsDispatch.type = "command")
        => wsDispatch.resp # "{type:error,status:unknown command}"

\* min(5000 ms * 2^n, 60000 ms)
BackoffDelay(n) == IF 5000 * 2^n < 60000 THEN 5000 * 2^n ELSE 60000

\* C13: after K consecutive failed attempts with no successful handshake in
\* between, the delay armed for the K-th reconnect is min(5000 * 2^(K-1), 60000) ms
\* and the next one will be min(5000 * 2^K, 60000) ms; a successful handshake puts
\* the next delay back to 5000 ms.
C13_BackoffDelayFormula ==
    /\ m_retry_count > 0 => timerDelay = BackoffDelay(m_retry_count - 1)
    /\ m_retry_delay_ms = BackoffDelay(m_retry_count)

\* C13 witness: the fifth consecutive failure armed the timer with the capped
\* delay (5000 * 2^4 = 80000 > 60000), after a connection that had been open failed.
C13_Witness ==
    /\ m_retry_count = 5
    /\ timer = "armed"
    /\ timerDelay = 60000
    /\ wsDispatch.kind = "error"

\* C14: only a successful handshake lowers m_retry_count or m_retry_delay_ms, and
\* it puts them to 0 and 5000; every other change of either is one scheduled
\* reconnect, which adds exactly one to the count, arms the timer and never lowers
\* the delay; connect, send, close, a received message and a timer firing change
\* neither.
C14_RetryStateResetOnlyByHandshake ==
    [][(m_retry_count' # m_retry_count \/ m_retry_delay_ms' # m_retry_delay_ms)
          => \/ /\ ioPc = "hs_lock"
                /\ m_open'
                /\ m_retry_count' = 0
                /\ m_retry_delay_ms' = 5000
             \/ /\ ioPc = "sr_lock"
                /\ m_should_reconnect
                /\ m_retry_count' = m_retry_count + 1
                /\ m_retry_delay_ms' >= m_retry_delay_ms
                /\ timer' = "armed"]_vars

\* C14 witness: two reconnects have been scheduled since the last handshake and a
\* close() is under way, which left the count at 2 and the delay at 20000.
C14_Witness ==
    /\ m_retry_count = 2
    /\ m_retry_delay_ms = 20000
    /\ apiPc = "close_check"
    /\ ~m_should_reconnect

\* C15: is_open() is false in every state in which the push channel is
\* resolving, connecting, handshaking or waiting in backoff.
C15_OpenOnlyWhenEstablished ==
    m_open => /\ chains["resolve"] = 0
              /\ chains["connect"] = 0
              /\ chains["handshake"] = 0
              /\ timer \notin {"armed", "fired"}

\* C16: once close() has cleared should_reconnect, the background task arms no
\* reconnect timer and starts no new resolve attempt.
C16_CloseStopsReconnect ==
    [][~m_should_reconnect
          => /\ ~(timer' = "armed" /\ timer # "armed")
             /\ ~(ioPc = "do_reconnect" /\
                  chains'["resolve"] > chains["resolve"])]_vars

\* C17: every read and write of is_open, should_reconnect, retry_count,
\* retry_delay and the reconnect timer is made while holding the state mutex.
C17_SharedStateUnderMutex ==
    /\ ApiAccess.members # {} => ApiAccess.locked
    /\ IoAccess.members # {} => IoAccess.locked

\* C18: the socket is accessed by one thread at a time: the calling thread is
\* never at a statement that uses m_ws while the background task is at one.
C18_SocketOnOneThread ==
    ~(ApiOnSocket /\ IoOnSocket)

\* C19: an on_read invocation that received a message calls do_read exactly once
\* (after send() when there is a response to send) and never schedule_reconnect,
\* and the read it issued stays pending; an invocation that got an error calls
\* do_read never and schedule_reconnect exactly once.
C19_ReadLoopReissuesOneRead ==
    /\ wsDispatch.kind = "message"
           => /\ wsDispatch.reconnects = 0
              /\ wsDispatch.reads = (IF ioPc = "send_lock" THEN 0 ELSE 1)
              /\ ioPc # "send_lock" => chains["read"] >= 1
    /\ wsDispatch.kind = "error"
           => /\ wsDispatch.reads = 0
              /\ wsDispatch.reconnects = (IF ioPc = "rd_lock" THEN 0 ELSE 1)

\* C19 witness: a command message was handled, its response handed to send(),
\* and the next read issued; the write is queued and the read is pending.
C19_Witness ==
    /\ wsDispatch.kind = "message"
    /\ wsDispatch.executed
    /\ wsDispatch.reads = 1
    /\ posts["write"] > 0
    /\ chains["read"] = 1
    /\ ioPc = "idle"

\* the push channel as a close() that has returned leaves it
ClosedWs == ~m_should_reconnect /\ ~m_open /\ ioPc = "none"

\* C22: a close() made on a push channel that is already closed, and a
\* stopCommandPolling made while polling is already stopped, find nothing to do:
\* no step of the call changes the state, and the call goes to no join.
C22_SecondStopOrCloseDoesNothing ==
    [][/\ (ClosedWs /\ (apiPc \in {"close_cancel", "close_check"} \/
                       apiPc' \in {"close_cancel", "close_check"}))
            => /\ apiPc' \in {"close_cancel", "close_check", "idle"}
               /\ UNCHANGED <<m_open, m_should_reconnect, m_retry_count,
                              m_retry_delay_ms, m_mutex, ioPc, iocStopped, chains,
                              timer, timerDelay, posts, wsDispatch>>
       /\ (~pollingActive /\ ctlPc = "idle" /\ ctlPc' # "idle" /\ ctlPc' # "start_thread")
            => /\ ctlPc' = "stop_return"
               /\ UNCHANGED <<pollingActive, pollMutex, pollPc, pollCmd, pollWake, pollCycle>>
       /\ (ctlPc = "stop_return" /\ ctlPc' # "stop_return")
            => /\ ctlPc' = "idle"
               /\ UNCHANGED <<pollingActive, pollMutex, pollPc, pollCmd, pollWake, pollCycle>>]_vars

\* C22 witness: a second close() is at its "already closed" check on a client
\* whose connection had been open and whose I/O thread the first close() joined.
C22_Witness ==
    /\ ClosedWs
    /\ apiPc = "close_check"
    /\ iocStopped
    /\ wsDispatch.kind = "message"

----------------------------------------------------------------------------
(* Claims about telemetry batching and the HTTP transport *)

\* C25: a push flushes exactly when it brings the buffer to BATCH_SIZE events;
\* the flush is one sendTelemetryBatch call with all BATCH_SIZE buffered events,
\* the buffer is empty after it whether the call succeeded or failed, and so the
\* buffer holds fewer than BATCH_SIZE events after every push.
C25_FlushExactlyAtBatchSize ==
    /\ Len(eventBuffer) < BATCH_SIZE
    /\ telPushed > 0 =>
         /\ telLast.flushed <=> telLast.lenBefore + 1 = BATCH_SIZE
         /\ telLast.flushes * BATCH_SIZE <= telPushed
         /\ telPushed < (telLast.flushes + 1) * BATCH_SIZE
         /\ telLast.flushed =>
              /\ telLast.batch = [i \in 1..BATCH_SIZE |-> telPushed - BATCH_SIZE + i]
              /\ eventBuffer = <<>>
              /\ \A i \in 1..Len(httpLast.attempts) :
                     httpLast.attempts[i].body.events = telLast.batch
         /\ ~telLast.flushed =>
              /\ Len(eventBuffer) = telLast.lenBefore + 1
              /\ eventBuffer[Len(eventBuffer)] = telPushed

\* the BATCH_SIZE-th push has returned after a flush that failed although the
\* batch was sent
C25_Witness ==
    /\ telPushed = BATCH_SIZE
    /\ telLast.flushed
    /\ ~telLast.ok
    /\ httpLast.attempts # <<>>
    /\ eventBuffer = <<>>

TelemetryOps == {"sendCompressedHttpPost", "sendHttpPost"}

SameRequest(a, b) ==
    /\ a.method = b.method
    /\ a.path = b.path
    /\ a.headers = b.headers
    /\ a.body = b.body

\* C26: a telemetry send over the persistent connection makes at most two send
\* attempts; after a failed first send the connection is torn down and recreated
\* exactly once, the second attempt is the same request (path, headers, body) as
\* the first, and the send reports failure when the second attempt fails too.
C26_TelemetryRetriesSameRequestOnce ==
    httpLast.op \in TelemetryOps =>
        LET a == httpLast.attempts
        IN  /\ Len(a) <= 2
            /\ \A i \in 1..Len(a) : a[i].via = "persistent"
            /\ (a # <<>> /\ a[1].sent) => Len(a) = 1 /\ httpLast.reconnects = 0
            /\ (a # <<>> /\ ~a[1].sent) => httpLast.reconnects = 1
            /\ Len(a) = 2 => SameRequest(a[1], a[2])
            /\ (a # <<>> /\ ~a[Len(a)].sent) => ~httpLast.ok

\* C27: GET and POST use the persistent session/connection pair, and a failed
\* send is retried exactly once after the connection has been torn down and
\* recreated, before the empty result is returned.
C27_GetPostRetryOnPersistentConnection ==
    httpLast.op \in {"GET", "POST"} =>
        LET a == httpLast.attempts
        IN  /\ \A i \in 1..Len(a) : a[i].via = "persistent"
            /\ (a # <<>> /\ ~a[1].sent) => httpLast.reconnects = 1
            /\ (a # <<>> /\ ~a[Len(a)].sent) => httpLast.body = ""

\* C28: a telemetry POST, compressed or not, that received a response reports
\* success exactly when the status of the response is 200 or 201.
C28_TelemetrySuccessIs200Or201 ==
    (httpLast.op \in TelemetryOps /\ httpLast.received) =>
        (httpLast.ok <=> httpLast.status \in {200, 201})

\* C29: every request a client issues carries every header registered on the
\* client with addHeader before the request.
C29_CustomHeadersOnEveryRequest ==
    [][httpLast' # httpLast =>
           \A i \in 1..Len(httpLast'.attempts) :
               headersOf(customHeaders) \subseteq httpLast'.attempts[i].headers]_vars

\* the address a host name of a URL stands for
Resolve(name) == IF name = "localhost" THEN "127.0.0.1" ELSE name

\* C30: the EDR_ALLOW_SERVER rule installed by isolate_host allows the address
\* and port of the server the polling loop fetches commands from and reports
\* results to.
C30_AllowRuleScopedToPolledServer ==
    allowScope # NoScope =>
        /\ allowScope.remoteip = Resolve(serverUrl.host)
        /\ allowScope.remoteport = serverUrl.port

----------------------------------------------------------------------------
(* Claims about termination, shutdown and the handles of the transports *)

\* C31: killProcessTree(pid) terminates for every pid and every process-table
\* snapshot: no call exhausts the stack by recursing without bound, also when a
\* process is listed as its own parent or the parent-of relation has a cycle.
C31_KillProcessTreeTerminates ==
    killLast.op = "kill" => ~killLast.overflow

\* the positions of a polling thread inside the body of "while (pollingActive)"
InLoopBody == {"get", "exec", "post", "lock", "pred", "wait", "relock"}

\* C32: at most one polling loop runs at any time: after any sequence of
\* startCommandPolling and stopCommandPolling calls no two polling threads are
\* inside the loop body together.
C32_AtMostOnePollingLoop ==
    \A t, u \in PollThreads :
        (pollPc[t] \in InLoopBody /\ pollPc[u] \in InLoopBody) => t = u

\* C33: once stopCommandPolling has returned (the flag is clear and no start or
\* stop call is in progress), no polling thread fetches a command, executes a
\* response action or posts a result.
C33_NoPollingAfterStopReturns ==
    [][(~pollingActive /\ ctlPc = "idle") =>
           \A t \in PollThreads :
               pollPc[t] \in {"get", "exec", "post"} => pollPc'[t] = pollPc[t]]_vars

\* C34: the graceful close that close() hands to the background task is performed
\* on the socket before the event loop stops: when m_ioc.run() has returned after
\* the stop, no posted close is left unperformed.
C34_PostedCloseRunsBeforeLoopStops ==
    (iocStopped /\ ioPc \in {"exited", "none"}) => posts["close"] = 0

\* C35: after close() has returned the channel is not open and does not become
\* open again, whatever connect() calls follow.
C35_ClosedForGoodAfterClose ==
    (~m_should_reconnect /\ apiPc = "idle") => ~m_open

\* the operations of the connection attempt that are pending: the asynchronous
\* operations of the chain and the wait of the reconnect timer
AttemptsInProgress ==
    PendingChains + (IF timer \in {"armed", "fired"} THEN 1 ELSE 0)

\* C36: after a single connect() at most one of resolve, connect, handshake, read
\* and the reconnect timer is pending in every state, between two handlers
\* exactly one is (a failure has armed one timer), and every failure is followed
\* by a new resolve attempt.
C36_OneAttemptInProgress ==
    /\ [](/\ AttemptsInProgress <= 1
          /\ (ioPc = "idle" => AttemptsInProgress = 1))
    /\ (ioPc = "sr_lock" ~> chains["resolve"] = 1)

\* a failed handshake has armed the timer for the doubled delay of a second failure
C36_Witness ==
    /\ timer = "armed"
    /\ PendingChains = 0
    /\ m_retry_count = 2
    /\ ioPc = "idle"

\* the number of times WinHttpCloseHandle was given the handle of attempt i
TimesClosed(call, i) == Cardinality({j \in DOMAIN call.closed : call.closed[j] = i})

\* C37: in sendCompressedHttpPost and sendHttpPost every request handle that was
\* opened is closed exactly once on every path, also when the first send fails
\* and the reconnect or the re-creation of the request fails.
C37_RequestHandleClosedOnce ==
    httpLast.op \in TelemetryOps =>
        /\ \A i \in DOMAIN httpLast.attempts : TimesClosed(httpLast, i) = 1
        /\ \A j \in DOMAIN httpLast.closed :
               httpLast.closed[j] \in DOMAIN httpLast.attempts \cup {0}

\* the part of C37 the code keeps: without a failed reconnect every opened
\* request handle is closed exactly once
C37_ClosedOnceUnlessReconnectFails ==
    (httpLast.op \in TelemetryOps /\ ~(httpLast.reconnects = 1 /\ ~httpLast.c.hConnect))
        => \A i \in DOMAIN httpLast.attempts : TimesClosed(httpLast, i) = 1

\* the events of a sequence of batches, in order
RECURSIVE Flatten(_)
Flatten(batches) ==
    IF batches = <<>> THEN <<>> ELSE Head(batches) \o Flatten(Tail(batches))

FailedCycle(t) ==
    \/ pollCycle[t].fetched \in {"empty", "skipped"}
    \/ pollCycle[t].delivered = "failed"

\* C39: the polling loop never terminates because of a failure inside a cycle: a
\* failed GET, a response that is not valid JSON, an envelope whose command_id or
\* type is missing or not a string, or a failed result POST each leave the thread
\* at the sleep of the loop body; the thread leaves the loop only from the loop
\* condition with pollingActive clear; and from the sleep the next cycle starts
\* unless polling is stopped.
C39_FailedCycleKeepsLoopRunning ==
    /\ [](\A t \in PollThreads : FailedCycle(t) => pollPc[t] = "lock")
    /\ [][\A t \in PollThreads :
              (pollPc'[t] = "exited" /\ pollPc[t] # "exited")
                  => (pollPc[t] = "top" /\ ~pollingActive)]_vars
    /\ \A t \in PollThreads :
           (pollPc[t] = "lock") ~> (pollPc[t] = "get" \/ ~pollingActive)

\* a cycle whose result POST failed has reached the sleep while polling is active
C39_Witness ==
    \E t \in PollThreads :
        /\ pollCycle[t].delivered = "failed"
        /\ pollCycle[t].execs = 1
        /\ pollPc[t] = "lock"
        /\ pollingActive

\* a step in which a telemetry send found both persistent handles valid
ReusingSend ==
    /\ hSession /\ hConnect
    /\ httpLast' # httpLast
    /\ httpLast'.op \in TelemetryOps

\* the handles are NULL at construction, only a telemetry send changes them, and
\* a connection handle is never held without a session handle
LazyAndPaired ==
    /\ ~hSession /\ ~hConnect
    /\ [](hConnect => hSession)
    /\ [][<<hSession, hConnect>>' # <<hSession, hConnect>>
              => httpLast'.op \in TelemetryOps]_vars

\* C40 as stated: the persistent HTTP connection is created lazily and reused: no
\* session or connection handle exists before the first telemetry send, a send
\* that finds both handles valid opens no new handle, and the client never holds
\* a connection handle without the session handle it was created from.
C40_ValidHandlesNeverReopened ==
    /\ LazyAndPaired
    /\ [][ReusingSend => httpLast'.opened = 0]_vars

\* C40, amended: as stated, except that a send that finds both handles valid
\* opens new handles in the one case that its first WinHttpSendRequest fails and
\* the retry recreates the connection; when its first request is sent it opens
\* none and leaves both handles valid.
C40_PersistentConnectionLazyAndReused ==
    /\ LazyAndPaired
    /\ [][ReusingSend
              => /\ httpLast'.opened > 0
                     => /\ httpLast'.reconnects = 1
                        /\ ~httpLast'.attempts[1].sent
                 /\ (httpLast'.attempts # <<>> /\ httpLast'.attempts[1].sent)
                     => /\ httpLast'.opened = 0
                        /\ hSession' /\ hConnect']_vars

\* a telemetry send found both handles valid, sent its request on them and
\* created none
C40_Witness ==
    /\ httpLast.op \in TelemetryOps
    /\ httpLast.attempts # <<>>
    /\ httpLast.attempts[1].sent
    /\ httpLast.opened = 0
    /\ hSession /\ hConnect

============================================================================
